---- MODULE Spec2Model ----
(***************************************************************************)
(* Verification model of Predict_Protein2D: the classical Chou-Fasman      *)
(* region pipeline (chou_fasman), the signal-refined predictor             *)
(* (improved_chou_fasman) and the GOR windowed statistical model (GOR).    *)
(*                                                                         *)
(* Numbers.  The propensity tables hold two-decimal values; they are kept  *)
(* as integers in hundredths.  An average is kept as the exact fraction    *)
(* <<total, count>> and compared by cross-multiplication, so comparisons   *)
(* are those of exact arithmetic (float64 rounding is not modelled).       *)
(* Positions are 0-based as in the source: residue i is SEQUENCE[i+1].     *)
(***************************************************************************)
EXTENDS Integers, Sequences, FiniteSets, TLC

\* ------------------------------------------------------------------------
\* Bounds of the model
\* ------------------------------------------------------------------------
\* every sequence of length 0..MaxLen is analysed
MaxLen == 6

\* longer sequences are analysed too: those made of at most MaxRuns runs of
\* 1..MaxRun equal residues
MaxRuns == 2

MaxRun == 5

\* runs of the block sequences of the classical pipeline
BlockRuns == 3

\* the number of residue codes sequences are built from
NumResidues == 3

\* unit tests of SolveOverlaps: sequences of length 0..HarnessLen and lists
\* of at most MaxRegions regions of the sequence
HarnessLen == 2

MaxRegions == 2

\* unit tests of IsNucleationRegion: sequences of length 0..NucLen
NucLen == 3

\* unit tests of ExtendedRegions: sequences of length 0..ExtLen and lists of
\* at most ExtMaxRegions regions of 4 residues or more
ExtLen == 5

ExtMaxRegions == 1

\* unit tests of MergeOverlappingRegions: lists of at most MergeMaxRegions
\* regions that end at MergeMaxEnd or before
MergeMaxEnd == 5

MergeMaxRegions == 3

\* unit tests of TryMerging: two regions that end at TryMaxEnd or before
TryMaxEnd == 8

\* chou_fasman run several times in one process: the sequences are those of
\* at most JobRuns runs of equal residues
JobRuns == 1

\* GOR training: at most MaxExamples ids in the id list, profiles of at most
\* MaxProfileLen rows drawn from NumRowKinds kinds of row, window sizes
\* 1..MaxWindow
MaxExamples == 2

MaxProfileLen == 2

NumRowKinds == 3

MaxWindow == 3

\* unit tests of PredictGOR: models of window size 1..TestMaxWindow whose rows
\* are drawn from TestRowKinds kinds of row, profiles of at most
\* TestProfileLen rows
TestMaxWindow == 3

TestRowKinds == 2

TestProfileLen == 2

\* TestTrainGOR: row widths len(aaList) - WidthSlack .. len(aaList) + WidthSlack
WidthSlack == 1

TrainTestLen == 2

TrainTestWindow == 3

TrainTestIds == 2

\* TestFindNucleationRegion
FindLen == 4

\* TestCleanUpStructure
CleanLen == 7

\* TestExtendBounds
BoundsLen == 7

\* TrainBothOrders
OrderRowKinds == 2

OrderProfileLen == 2

OrderIds == 2

OrderWindow == 3

\* TestFindCoilRegions, TestPredictSequenceFromRegions
LabelLen == 3

LabelMaxRegions == 2

\* ------------------------------------------------------------------------
\* State
\* ------------------------------------------------------------------------
VARIABLES
    program,            \* which executable (or test binary) is running
    SEQUENCE,           \* chou_fasman global: the sequence being analysed
    pc,                 \* position of main() of chou_fasman
    alphaRegions,       \* main(): helix regions of the current stage
    betaRegions,        \* main(): strand regions of the current stage
    alphaFinal,         \* main(): helix regions after SolveOverlaps
    betaFinal,          \* main(): strand regions after SolveOverlaps
    coilFinal,          \* main(): result of FindCoilRegions
    predictedSequence,  \* main(): result of PredictSequenceFromRegions
    op,                 \* chou_fasman tests: the function the test called
    tcInput,          \* chou_fasman tests: first list as passed to the call
    tcRegions1,           \* chou_fasman tests: the same slice after the call
    tcConf1,              \* chou_fasman tests: conformation of the first list
    tcRegions2,           \* chou_fasman tests: second list
    tcConf2,              \* chou_fasman tests: conformation of the second list
    result,             \* chou_fasman tests: value the call returned
    tcArgs,             \* tests: the scalar arguments of the call
    icfPc,              \* improved_chou_fasman: position in main/predictStructure
    icfSeq,             \* improved_chou_fasman: seq of predictStructure
    nucleationSites,    \* predictStructure: nucleationSites ([]bool, 0-based i at i+1)
    rawH,               \* predictStructure: rawH
    rawE,               \* predictStructure: rawE
    final,              \* predictStructure: final, before cleanup
    icfOut,             \* main: result of predictStructure
    gorPc,              \* GOR: position in train/main.go, predict/main.go
    gorModel,           \* TrainGOR: model (matrices being accumulated), or "nil"
    gorErr,             \* GOR: the error a call returned, or "nil"
    gorCount,           \* TrainGOR: number of ids read from the id list
    gorExample,         \* TrainGOR: the files of the id read last
    modelFile,          \* the model file on disk, or "absent"
    gorLoaded,          \* predict main / tests: the model PredictGOR is given
    gorProfile,         \* predict main / tests: the profile PredictGOR is given
    gorOut,             \* predict main / tests: the string PredictGOR returned
    jobs                \* chou_fasman run several times in one process: the
                        \* locals of each run of the steps of main()

cfVars == <<SEQUENCE, pc, alphaRegions, betaRegions, alphaFinal, betaFinal,
            coilFinal, predictedSequence>>

testVars == <<op, tcInput, tcRegions1, tcConf1, tcRegions2, tcConf2, result,
              tcArgs>>

icfVars == <<icfPc, icfSeq, nucleationSites, rawH, rawE, final, icfOut>>

gorVars == <<gorPc, gorModel, gorErr, gorCount, gorExample, modelFile,
             gorLoaded, gorProfile, gorOut>>

jobVars == <<jobs>>

vars == <<program, cfVars, testVars, icfVars, gorVars, jobVars>>

\* ------------------------------------------------------------------------
\* Generic helpers
\* ------------------------------------------------------------------------
Min2(a, b) == IF a < b THEN a ELSE b

Max2(a, b) == IF a > b THEN a ELSE b

\* exact comparison of two fractions <<numerator, denominator>>, denominator > 0
RatGT(a, b) == a[1] * b[2] > b[1] * a[2]

RatGE(a, b) == a[1] * b[2] >= b[1] * a[2]

RatEQ(a, b) == a[1] * b[2] = b[1] * a[2]

\* all sequences over S of length 0..n
SeqsUpTo(S, n) == UNION {[1..k -> S] : k \in 0..n}

\* n copies of x
Repeat(x, n) == [k \in 1..n |-> x]

\* the sequences made of at most r runs of 1..MaxRun equal residues of S
RECURSIVE RunSeqs(_, _)
RunSeqs(S, r) ==
    IF r = 0 THEN {<<>>}
    ELSE LET shorter == RunSeqs(S, r - 1)
         IN  shorter \cup {s \o Repeat(x, n) : s \in shorter, x \in S, n \in 1..MaxRun}

\* ------------------------------------------------------------------------
\* chou_fasman: propensity tables (hundredths)
\* ------------------------------------------------------------------------
alphaParam ==
    [A |-> 142, R |-> 98, N |-> 67, D |-> 101, C |-> 70,
     Q |-> 111, E |-> 151, G |-> 57, H |-> 100, I |-> 108,
     L |-> 121, K |-> 116, M |-> 145, F |-> 113, P |-> 57,
     S |-> 77, T |-> 83, W |-> 108, Y |-> 69, V |-> 106,
     X |-> 100]

betaParam ==
    [A |-> 83, R |-> 93, N |-> 89, D |-> 54, C |-> 119,
     Q |-> 110, E |-> 37, G |-> 75, H |-> 87, I |-> 160,
     L |-> 130, K |-> 74, M |-> 105, F |-> 138, P |-> 55,
     S |-> 75, T |-> 119, W |-> 137, Y |-> 147, V |-> 170,
     X |-> 100]

\* the residues sequences are drawn from, in the order they are added when
\* NumResidues grows; "Z" is a code that is in no table
ResidueOrder == <<"E", "V", "Z", "G", "X", "A", "L", "K">>

Residues == {ResidueOrder[k] : k \in 1..Min2(NumResidues, Len(ResidueOrder))}

\* the sequences the predictors are run on
InputSequences == SeqsUpTo(Residues, MaxLen) \cup RunSeqs(Residues, MaxRuns)

\* a weak strand former, a helix former and a strong strand former
BlockResidues == {"T", "E", "V"}

\* the sequence files of the classical pipeline: also blocks long enough for
\* one helix region to overlap two strand regions
ClassicalSequences == InputSequences \cup RunSeqs(BlockResidues, BlockRuns)

ConformationParameter(residue, conformation) ==
    IF conformation = "alpha"
    THEN IF residue \in DOMAIN alphaParam THEN alphaParam[residue] ELSE 100
    ELSE IF conformation = "beta"
    THEN IF residue \in DOMAIN betaParam THEN betaParam[residue] ELSE 100
    ELSE 100

\* ------------------------------------------------------------------------
\* chou_fasman: region scoring
\* ------------------------------------------------------------------------
Region(s, e) == [Start |-> s, End |-> e]

RECURSIVE SumParam(_, _, _)
SumParam(from, to, conformation) ==
    IF from >= to THEN 0
    ELSE ConformationParameter(SEQUENCE[from + 1], conformation)
         + SumParam(from + 1, to, conformation)

\* the average as the fraction <<total, length>>; 0.0 is <<0, 1>>
AverageParam(region, conformation) ==
    IF region.Start >= region.End \/ region.Start < 0
       \/ region.End > Len(SEQUENCE)
    THEN <<0, 1>>
    ELSE <<SumParam(region.Start, region.End, conformation),
           region.End - region.Start>>

\* mutant: the helix average must be strictly greater too
ConformationHasHigestAverageStrict(region, conformation) ==
    LET avg      == AverageParam(region, conformation)
        alphaAvg == AverageParam(region, "alpha")
        betaAvg  == AverageParam(region, "beta")
    IN  IF conformation = "alpha" THEN RatGT(avg, betaAvg)
        ELSE IF conformation = "beta" THEN RatGT(avg, alphaAvg)
        ELSE FALSE

ConformationHasHigestAverage(region, conformation) ==
    LET avg      == AverageParam(region, conformation)
        alphaAvg == AverageParam(region, "alpha")
        betaAvg  == AverageParam(region, "beta")
    IN  IF conformation = "alpha" THEN RatGE(avg, betaAvg)
        ELSE IF conformation = "beta" THEN RatGT(avg, alphaAvg)
        ELSE FALSE

IsNucleationRegion(region, conformation, windowThreshold, minParam) ==
    LET qualified ==
          Cardinality({p \in region.Start..(region.End - 1) :
              ConformationParameter(SEQUENCE[p + 1], conformation) > minParam})
    IN  qualified >= windowThreshold
        /\ ConformationHasHigestAverage(region, conformation)

\* mutant: the loop stops before the window that ends at the last residue
FindNucleationRegionShort(windowThreshold, windowSize, minParam, conformation) ==
    LET seqLen == Len(SEQUENCE)
        count  == Max2(0, seqLen - windowSize)
        windows == [k \in 1..count |-> Region(k - 1, k - 1 + windowSize)]
        Keep(region) ==
            IsNucleationRegion(region, conformation, windowThreshold, minParam)
    IN  SelectSeq(windows, Keep)

\* the loop j <= seqLen over the windows [i, j) with j - i = windowSize
FindNucleationRegion(windowThreshold, windowSize, minParam, conformation) ==
    LET seqLen == Len(SEQUENCE)
        count  == Max2(0, seqLen - windowSize + 1)
        windows == [k \in 1..count |-> Region(k - 1, k - 1 + windowSize)]
        Keep(region) ==
            IsNucleationRegion(region, conformation, windowThreshold, minParam)
    IN  SelectSeq(windows, Keep)

\* ------------------------------------------------------------------------
\* chou_fasman: extension
\* ------------------------------------------------------------------------
\* mutant: the window may not reach the last residue
ShiftWindowShort(window, terminus) ==
    LET seqLen == Len(SEQUENCE)
    IN  IF terminus = "N" /\ window.Start - 1 >= 0
        THEN [region |-> Region(window.Start - 1, window.End - 1), ok |-> TRUE]
        ELSE IF terminus = "C" /\ window.End + 1 < seqLen
        THEN [region |-> Region(window.Start + 1, window.End + 1), ok |-> TRUE]
        ELSE [region |-> Region(0, 0), ok |-> FALSE]

ShiftWindow(window, terminus) ==
    LET seqLen == Len(SEQUENCE)
    IN  IF terminus = "N" /\ window.Start - 1 >= 0
        THEN [region |-> Region(window.Start - 1, window.End - 1), ok |-> TRUE]
        ELSE IF terminus = "C" /\ window.End + 1 <= seqLen
        THEN [region |-> Region(window.Start + 1, window.End + 1), ok |-> TRUE]
        ELSE [region |-> Region(0, 0), ok |-> FALSE]

\* mutant: extension goes on only while the average is above 1.0
RECURSIVE ExtendCountStrict(_, _, _)
ExtendCountStrict(shift, terminus, conformation) ==
    LET newShift == ShiftWindow(shift, terminus)
    IN  IF ~newShift.ok THEN 0
        ELSE IF RatGT(AverageParam(newShift.region, conformation), <<100, 1>>)
        THEN 1 + ExtendCountStrict(newShift.region, terminus, conformation)
        ELSE 0

\* the number of successful one-step shifts of the 4-residue window
RECURSIVE ExtendCount(_, _, _)
ExtendCount(shift, terminus, conformation) ==
    LET newShift == ShiftWindow(shift, terminus)
    IN  IF ~newShift.ok THEN 0
        ELSE IF RatGE(AverageParam(newShift.region, conformation), <<100, 1>>)
        THEN 1 + ExtendCount(newShift.region, terminus, conformation)
        ELSE 0

ExtendedRegions(regions, conformation) ==
    [k \in 1..Len(regions) |->
        LET reg == regions[k]
            N == ExtendCount(Region(reg.Start, reg.Start + 4), "N", conformation)
            C == ExtendCount(Region(reg.End - 4, reg.End), "C", conformation)
        IN  Region(reg.Start - N, reg.End + C)]

FilterExtendedRegions(regions, conformation, threshold) ==
    LET Keep(reg) == RatGE(AverageParam(reg, conformation), <<threshold, 1>>)
    IN  SelectSeq(regions, Keep)

\* ------------------------------------------------------------------------
\* chou_fasman: merge
\* ------------------------------------------------------------------------
\* sort.Slice by Start: not stable, so every arrangement of the same regions
\* that is non-decreasing in Start is a possible outcome
RECURSIVE SortedByStart(_)
SortedByStart(regions) ==
    IF Len(regions) = 0 THEN {<<>>}
    ELSE LET n == Len(regions)
             firsts == {regions[a] : a \in {b \in 1..n :
                           \A c \in 1..n : regions[b].Start <= regions[c].Start}}
             Without(v) ==
                 LET at == CHOOSE a \in 1..n : regions[a] = v
                 IN  [k \in 1..(n - 1) |->
                        IF k < at THEN regions[k] ELSE regions[k + 1]]
         IN  UNION {{<<v>> \o rest : rest \in SortedByStart(Without(v))} :
                    v \in firsts}

\* mutant: merges only regions that strictly overlap
TryMergingStrict(i, j) ==
    IF i.End > j.Start
    THEN [region |-> Region(Min2(i.Start, j.Start), Max2(i.End, j.End)),
          ok |-> TRUE]
    ELSE [region |-> Region(0, 0), ok |-> FALSE]

\* mutant: the merged region ends where the second region ends
TryMergingNextEnd(i, j) ==
    IF i.End >= j.Start
    THEN [region |-> Region(Min2(i.Start, j.Start), j.End), ok |-> TRUE]
    ELSE [region |-> Region(0, 0), ok |-> FALSE]

TryMerging(i, j) ==
    IF i.End >= j.Start
    THEN [region |-> Region(Min2(i.Start, j.Start), Max2(i.End, j.End)),
          ok |-> TRUE]
    ELSE [region |-> Region(0, 0), ok |-> FALSE]

\* the loop of MergeOverlappingRegions from index i on, with the region
\* being grown and the regions already emitted
RECURSIVE MergeLoop(_, _, _, _)
MergeLoop(sorted, i, current, mergedRegions) ==
    IF i > Len(sorted) THEN Append(mergedRegions, current)
    ELSE LET next == sorted[i]
             m    == TryMerging(current, next)
         IN  IF m.ok THEN MergeLoop(sorted, i + 1, m.region, mergedRegions)
             ELSE MergeLoop(sorted, i + 1, next, Append(mergedRegions, current))

\* the result of MergeOverlappingRegions once its argument has been sorted in
\* place into `sorted`
MergeSorted(sorted) ==
    IF Len(sorted) < 2 THEN sorted
    ELSE MergeLoop(sorted, 2, sorted[1], <<>>)

\* the possible outcomes: `input` is the caller's slice after the call (sorted
\* in place unless shorter than 2), `output` the returned slice
MergeOverlappingRegions(regions) ==
    IF Len(regions) < 2 THEN {[input |-> regions, output |-> regions]}
    ELSE {[input |-> s, output |-> MergeSorted(s)] : s \in SortedByStart(regions)}

\* ------------------------------------------------------------------------
\* chou_fasman: conflict resolution
\* ------------------------------------------------------------------------
AreOverlapping(reg1, conf1, reg2, conf2) ==
    reg1.Start < reg2.End /\ reg2.Start < reg1.End

\* mutant: both averages are taken for the first conformation
StrongerAffinitySameConf(reg1, conf1, reg2, conf2) ==
    LET avg1 == AverageParam(reg1, conf1)
        avg2 == AverageParam(reg2, conf1)
    IN  IF RatGT(avg1, avg2) THEN reg1
        ELSE IF RatGT(avg2, avg1) THEN reg2
        ELSE IF conf1 = "alpha" THEN reg1
        ELSE reg2

\* returns a Region value: one of its two arguments
StrongerAffinity(reg1, conf1, reg2, conf2) ==
    LET avg1 == AverageParam(reg1, conf1)
        avg2 == AverageParam(reg2, conf2)
    IN  IF RatGT(avg1, avg2) THEN reg1
        ELSE IF RatGT(avg2, avg1) THEN reg2
        ELSE IF conf1 = "alpha" THEN reg1
        ELSE reg2

\* shouldKeep is a map keyed by the Region value, and the winner is compared
\* with reg2 by value
SolveOverlaps(regions1, conf1, regions2, conf2) ==
    LET shouldKeep(reg1) ==
            ~ \E k \in 1..Len(regions2) :
                  /\ AreOverlapping(reg1, conf1, regions2[k], conf2)
                  /\ StrongerAffinity(reg1, conf1, regions2[k], conf2)
                         = regions2[k]
    IN  SelectSeq(regions1, shouldKeep)

\* ------------------------------------------------------------------------
\* chou_fasman: coil regions and the label string
\* ------------------------------------------------------------------------
\* mutant: only the helix regions are marked
IsPredictedHelixOnly(alphaF, betaF, i) ==
    \E k \in 1..Len(alphaF) : alphaF[k].Start <= i /\ i < alphaF[k].End

\* isPredicted[i] after both marking loops (0-based position i)
IsPredicted(alphaF, betaF, i) ==
    \/ \E k \in 1..Len(alphaF) : alphaF[k].Start <= i /\ i < alphaF[k].End
    \/ \E k \in 1..Len(betaF) : betaF[k].Start <= i /\ i < betaF[k].End

\* the scan of FindCoilRegions from position i, with the loop's locals
RECURSIVE CoilScan(_, _, _, _, _, _)
CoilScan(alphaF, betaF, i, inCoil, currentStart, coilRegions) ==
    LET seqLen == Len(SEQUENCE)
    IN  IF i >= seqLen
        THEN IF inCoil THEN Append(coilRegions, Region(currentStart, seqLen))
             ELSE coilRegions
        ELSE IF ~IsPredicted(alphaF, betaF, i)
        THEN IF ~inCoil
             THEN CoilScan(alphaF, betaF, i + 1, TRUE, i, coilRegions)
             ELSE CoilScan(alphaF, betaF, i + 1, inCoil, currentStart, coilRegions)
        ELSE IF inCoil
             THEN CoilScan(alphaF, betaF, i + 1, FALSE, -1,
                           Append(coilRegions, Region(currentStart, i)))
             ELSE CoilScan(alphaF, betaF, i + 1, inCoil, currentStart, coilRegions)

FindCoilRegions(alphaF, betaF) ==
    IF Len(SEQUENCE) = 0 THEN <<>>
    ELSE CoilScan(alphaF, betaF, 0, FALSE, -1, <<>>)

\* one painting loop of PredictSequenceFromRegions: the regions from index k on
\* write `label` over prediction
RECURSIVE Paint(_, _, _, _)
Paint(prediction, regions, k, label) ==
    IF k > Len(regions) THEN prediction
    ELSE Paint([i \in 1..Len(prediction) |->
                   IF regions[k].Start <= i - 1 /\ i - 1 < regions[k].End
                   THEN label ELSE prediction[i]],
               regions, k + 1, label)

\* mutant: the helix regions are painted first, the strand regions last
PredictSequenceStrandLast(alphaF, betaF) ==
    LET seqLen == Len(SEQUENCE)
        allCoil == [i \in 1..seqLen |-> "C"]
    IN  Paint(Paint(allCoil, alphaF, 1, "H"), betaF, 1, "E")

PredictSequenceFromRegions(alphaF, betaF) ==
    LET seqLen == Len(SEQUENCE)
        allCoil == [i \in 1..seqLen |-> "C"]
    IN  Paint(Paint(allCoil, betaF, 1, "E"), alphaF, 1, "H")

\* ------------------------------------------------------------------------
\* chou_fasman: main()
\* ------------------------------------------------------------------------
\* a region whose painting loop indexes prediction[] below 0
PaintPanics(regions) ==
    \E k \in 1..Len(regions) :
        /\ regions[k].Start < 0
        /\ regions[k].Start < regions[k].End
        /\ regions[k].Start < Len(SEQUENCE)

CFIdle ==
    /\ SEQUENCE = <<>>
    /\ pc = "start"
    /\ alphaRegions = <<>>
    /\ betaRegions = <<>>
    /\ alphaFinal = <<>>
    /\ betaFinal = <<>>
    /\ coilFinal = <<>>
    /\ predictedSequence = <<>>

TestIdle ==
    /\ op = "none"
    /\ tcInput = <<>>
    /\ tcRegions1 = <<>>
    /\ tcConf1 = "alpha"
    /\ tcRegions2 = <<>>
    /\ tcConf2 = "beta"
    /\ result = <<>>
    /\ tcArgs = <<>>

\* SEQUENCE = seq: the cleaned, upper-cased content of the sequence file
ReadSequence ==
    /\ program = "chou_fasman"
    /\ pc = "start"
    /\ \E seq \in ClassicalSequences : SEQUENCE' = seq
    /\ pc' = "read"
    /\ UNCHANGED <<program, jobVars, alphaRegions, betaRegions, alphaFinal, betaFinal,
                   coilFinal, predictedSequence, testVars, icfVars, gorVars>>

Nucleate ==
    /\ program = "chou_fasman"
    /\ pc = "read"
    /\ alphaRegions' = FindNucleationRegion(4, 6, 100, "alpha")
    /\ betaRegions' = FindNucleationRegion(3, 5, 100, "beta")
    /\ pc' = "nucleated"
    /\ UNCHANGED <<program, jobVars, SEQUENCE, alphaFinal, betaFinal, coilFinal,
                   predictedSequence, testVars, icfVars, gorVars>>

Extend ==
    /\ program = "chou_fasman"
    /\ pc = "nucleated"
    /\ alphaRegions' = ExtendedRegions(alphaRegions, "alpha")
    /\ betaRegions' = ExtendedRegions(betaRegions, "beta")
    /\ pc' = "extended"
    /\ UNCHANGED <<program, jobVars, SEQUENCE, alphaFinal, betaFinal, coilFinal,
                   predictedSequence, testVars, icfVars, gorVars>>

Filter ==
    /\ program = "chou_fasman"
    /\ pc = "extended"
    /\ alphaRegions' = FilterExtendedRegions(alphaRegions, "alpha", 103)
    /\ betaRegions' = FilterExtendedRegions(betaRegions, "beta", 105)
    /\ pc' = "filtered"
    /\ UNCHANGED <<program, jobVars, SEQUENCE, alphaFinal, betaFinal, coilFinal,
                   predictedSequence, testVars, icfVars, gorVars>>

Merge ==
    /\ program = "chou_fasman"
    /\ pc = "filtered"
    /\ \E ma \in MergeOverlappingRegions(alphaRegions) :
           alphaRegions' = ma.output
    /\ \E mb \in MergeOverlappingRegions(betaRegions) :
           betaRegions' = mb.output
    /\ pc' = "merged"
    /\ UNCHANGED <<program, jobVars, SEQUENCE, alphaFinal, betaFinal, coilFinal,
                   predictedSequence, testVars, icfVars, gorVars>>

\* mutant: the strand regions are resolved against the surviving helix
\* regions
SolveSequential ==
    /\ program = "chou_fasman"
    /\ pc = "merged"
    /\ alphaFinal' = SolveOverlaps(alphaRegions, "alpha", betaRegions, "beta")
    /\ betaFinal' = SolveOverlaps(betaRegions, "beta", alphaFinal', "alpha")
    /\ pc' = "solved"
    /\ UNCHANGED <<program, jobVars, SEQUENCE, alphaRegions, betaRegions, coilFinal,
                   predictedSequence, testVars, icfVars, gorVars>>

Solve ==
    /\ program = "chou_fasman"
    /\ pc = "merged"
    /\ alphaFinal' = SolveOverlaps(alphaRegions, "alpha", betaRegions, "beta")
    /\ betaFinal' = SolveOverlaps(betaRegions, "beta", alphaRegions, "alpha")
    /\ pc' = "solved"
    /\ UNCHANGED <<program, jobVars, SEQUENCE, alphaRegions, betaRegions, coilFinal,
                   predictedSequence, testVars, icfVars, gorVars>>

FindCoil ==
    /\ program = "chou_fasman"
    /\ pc = "solved"
    /\ coilFinal' = FindCoilRegions(alphaFinal, betaFinal)
    /\ pc' = "coiled"
    /\ UNCHANGED <<program, jobVars, SEQUENCE, alphaRegions, betaRegions, alphaFinal,
                   betaFinal, predictedSequence, testVars, icfVars, gorVars>>

Predict ==
    /\ program = "chou_fasman"
    /\ pc = "coiled"
    /\ IF PaintPanics(betaFinal) \/ PaintPanics(alphaFinal)
       THEN pc' = "panic" /\ UNCHANGED predictedSequence
       ELSE /\ predictedSequence' =
                   PredictSequenceFromRegions(alphaFinal, betaFinal)
            /\ pc' = "done"
    /\ UNCHANGED <<program, jobVars, SEQUENCE, alphaRegions, betaRegions, alphaFinal,
                   betaFinal, coilFinal, testVars, icfVars, gorVars>>

NextCF ==
    \/ ReadSequence
    \/ Nucleate
    \/ Extend
    \/ Filter
    \/ Merge
    \/ Solve
    \/ FindCoil
    \/ Predict

\* ------------------------------------------------------------------------
\* chou_fasman: several predictions in one process.  Each prediction (job)
\* executes the steps of main() from `SEQUENCE = seq` to
\* PredictSequenceFromRegions on its own sequence and its own locals; the
\* package variable SEQUENCE is the one all of them assign and read.  Job 0
\* runs alone first; jobs 1 and 2 then run with their steps interleaved, job 1
\* on the sequence of job 0.
\* ------------------------------------------------------------------------
JobIds == 0..2

JobSequences == RunSeqs(Residues, JobRuns)

newJob(seq) ==
    [seq |-> seq, pc |-> "start", alphaRegions |-> <<>>, betaRegions |-> <<>>,
     alphaFinal |-> <<>>, betaFinal |-> <<>>, coilFinal |-> <<>>,
     predictedSequence |-> <<>>]

JobsIdle == jobs = [j \in JobIds |-> newJob(<<>>)]

\* the sequences of the predictions are chosen
JobsSetUp ==
    /\ program = "chou_fasman_jobs"
    /\ pc = "start"
    /\ \E seqA \in JobSequences : \E seqB \in JobSequences :
           jobs' = [j \in JobIds |-> newJob(IF j = 2 THEN seqB ELSE seqA)]
    /\ pc' = "jobs"
    /\ UNCHANGED <<program, SEQUENCE, alphaRegions, betaRegions, alphaFinal,
                   betaFinal, coilFinal, predictedSequence, testVars, icfVars,
                   gorVars>>

\* job j may take its next step
JobMayStep(j) ==
    /\ jobs[j].pc \notin {"done", "panic"}
    /\ IF j = 0 THEN TRUE ELSE jobs[0].pc \in {"done", "panic"}

\* the locals of job j after its next step; the step at "start" is the
\* assignment SEQUENCE = seq, every other step reads SEQUENCE
JobAfterStep(job) ==
    IF job.pc = "start" THEN {[job EXCEPT !.pc = "read"]}
    ELSE IF job.pc = "read"
    THEN {[job EXCEPT !.alphaRegions = FindNucleationRegion(4, 6, 100, "alpha"),
                      !.betaRegions = FindNucleationRegion(3, 5, 100, "beta"),
                      !.pc = "nucleated"]}
    ELSE IF job.pc = "nucleated"
    THEN {[job EXCEPT !.alphaRegions = ExtendedRegions(job.alphaRegions, "alpha"),
                      !.betaRegions = ExtendedRegions(job.betaRegions, "beta"),
                      !.pc = "extended"]}
    ELSE IF job.pc = "extended"
    THEN {[job EXCEPT !.alphaRegions =
                          FilterExtendedRegions(job.alphaRegions, "alpha", 103),
                      !.betaRegions =
                          FilterExtendedRegions(job.betaRegions, "beta", 105),
                      !.pc = "filtered"]}
    ELSE IF job.pc = "filtered"
    THEN {[job EXCEPT !.alphaRegions = ma.output,
                      !.betaRegions = mb.output,
                      !.pc = "merged"] :
              ma \in MergeOverlappingRegions(job.alphaRegions),
              mb \in MergeOverlappingRegions(job.betaRegions)}
    ELSE IF job.pc = "merged"
    THEN {[job EXCEPT !.alphaFinal =
                          SolveOverlaps(job.alphaRegions, "alpha",
                                        job.betaRegions, "beta"),
                      !.betaFinal =
                          SolveOverlaps(job.betaRegions, "beta",
                                        job.alphaRegions, "alpha"),
                      !.pc = "solved"]}
    ELSE IF job.pc = "solved"
    THEN {[job EXCEPT !.coilFinal = FindCoilRegions(job.alphaFinal, job.betaFinal),
                      !.pc = "coiled"]}
    ELSE IF PaintPanics(job.betaFinal) \/ PaintPanics(job.alphaFinal)
    THEN {[job EXCEPT !.pc = "panic"]}
    ELSE {[job EXCEPT !.predictedSequence =
                          PredictSequenceFromRegions(job.alphaFinal, job.betaFinal),
                      !.pc = "done"]}

JobStep ==
    /\ program = "chou_fasman_jobs"
    /\ pc = "jobs"
    /\ \E j \in JobIds :
           /\ JobMayStep(j)
           /\ SEQUENCE' = IF jobs[j].pc = "start" THEN jobs[j].seq ELSE SEQUENCE
           /\ \E after \in JobAfterStep(jobs[j]) :
                  jobs' = [jobs EXCEPT ![j] = after]
    /\ UNCHANGED <<program, pc, alphaRegions, betaRegions, alphaFinal,
                   betaFinal, coilFinal, predictedSequence, testVars, icfVars,
                   gorVars>>

NextJobs ==
    \/ JobsSetUp
    \/ JobStep

\* ------------------------------------------------------------------------
\* chou_fasman: the unit tests of the region operations.  A test sets
\* SEQUENCE, calls one function on the lists of its test case and compares
\* the value returned.
\* ------------------------------------------------------------------------
\* the regions [s, e) with 0 <= s < e <= n
RegionsWithin(n) ==
    {r \in [Start : 0..n, End : 0..n] : r.Start < r.End}

\* the sequences the unit tests of SolveOverlaps set SEQUENCE to
HarnessSequences == SeqsUpTo(Residues, HarnessLen)

TestSolveOverlaps ==
    /\ program = "chou_fasman_test"
    /\ op = "none"
    /\ \E seq \in HarnessSequences :
       \E r1 \in SeqsUpTo(RegionsWithin(Len(seq)), MaxRegions) :
       \E r2 \in SeqsUpTo(RegionsWithin(Len(seq)), MaxRegions) :
       \E c \in {<<"alpha", "beta">>, <<"beta", "alpha">>} :
           /\ SEQUENCE' = seq
           /\ tcInput' = r1
           /\ tcRegions1' = r1
           /\ tcConf1' = c[1]
           /\ tcRegions2' = r2
           /\ tcConf2' = c[2]
    /\ result' = SolveOverlaps(tcInput, tcConf1, tcRegions2, tcConf2)'
    /\ op' = "SolveOverlaps"
    /\ UNCHANGED <<program, jobVars, pc, alphaRegions, betaRegions, alphaFinal,
                   betaFinal, coilFinal, predictedSequence, icfVars, gorVars,
                   tcArgs>>

TestMergeOverlappingRegions ==
    /\ program = "chou_fasman_test"
    /\ op = "none"
    /\ \E r \in SeqsUpTo(RegionsWithin(MergeMaxEnd), MergeMaxRegions) :
       \E m \in MergeOverlappingRegions(r) :
           /\ tcInput' = r
           /\ tcRegions1' = m.input
           /\ result' = m.output
    /\ op' = "MergeOverlappingRegions"
    /\ UNCHANGED <<program, jobVars, cfVars, tcConf1, tcRegions2, tcConf2, tcArgs,
                   icfVars, gorVars>>

TestTryMerging ==
    /\ program = "chou_fasman_test"
    /\ op = "none"
    /\ \E i \in RegionsWithin(TryMaxEnd) : \E j \in RegionsWithin(TryMaxEnd) :
           /\ tcInput' = <<i, j>>
           /\ tcRegions1' = <<i, j>>
           /\ result' = TryMerging(i, j)
    /\ op' = "TryMerging"
    /\ UNCHANGED <<program, jobVars, cfVars, tcConf1, tcRegions2, tcConf2, tcArgs,
                   icfVars, gorVars>>

\* the values of minParam the unit tests pass (hundredths)
TestMinParams == {50, 100, 150}

TestIsNucleationRegion ==
    /\ program = "chou_fasman_test"
    /\ op = "none"
    /\ \E seq \in SeqsUpTo(Residues, NucLen) :
       \E region \in RegionsWithin(Len(seq)) :
       \E conformation \in {"alpha", "beta"} :
       \E windowThreshold \in 0..(Len(seq) + 1) :
       \E minParam \in TestMinParams :
           /\ SEQUENCE' = seq
           /\ tcInput' = <<region>>
           /\ tcConf1' = conformation
           /\ tcArgs' = [windowThreshold |-> windowThreshold,
                         minParam |-> minParam]
    /\ result' = IsNucleationRegion(tcInput[1], tcConf1,
                                    tcArgs.windowThreshold, tcArgs.minParam)'
    /\ op' = "IsNucleationRegion"
    /\ UNCHANGED <<program, jobVars, pc, alphaRegions, betaRegions, alphaFinal,
                   betaFinal, coilFinal, predictedSequence, tcRegions1,
                   tcRegions2, tcConf2, icfVars, gorVars>>

TestFindNucleationRegion ==
    /\ program = "chou_fasman_test"
    /\ op = "none"
    /\ \E seq \in SeqsUpTo(Residues, FindLen) :
       \E conformation \in {"alpha", "beta"} :
       \E windowSize \in 1..(Len(seq) + 1) :
       \E windowThreshold \in 0..(windowSize + 1) :
       \E minParam \in TestMinParams :
           /\ SEQUENCE' = seq
           /\ tcConf1' = conformation
           /\ tcArgs' = [windowThreshold |-> windowThreshold,
                         windowSize |-> windowSize,
                         minParam |-> minParam]
    /\ result' = FindNucleationRegion(tcArgs.windowThreshold, tcArgs.windowSize,
                                      tcArgs.minParam, tcConf1)'
    /\ op' = "FindNucleationRegion"
    /\ UNCHANGED <<program, jobVars, pc, alphaRegions, betaRegions, alphaFinal,
                   betaFinal, coilFinal, predictedSequence, tcInput, tcRegions1,
                   tcRegions2, tcConf2, icfVars, gorVars>>

\* the regions [s, e) of n residues with e - s >= 4
NucleationRegionsWithin(n) == {r \in RegionsWithin(n) : r.End - r.Start >= 4}

TestExtendedRegions ==
    /\ program = "chou_fasman_test"
    /\ op = "none"
    /\ \E seq \in SeqsUpTo(Residues, ExtLen) :
       \E regions \in SeqsUpTo(NucleationRegionsWithin(Len(seq)), ExtMaxRegions) :
       \E conformation \in {"alpha", "beta"} :
           /\ SEQUENCE' = seq
           /\ tcInput' = regions
           /\ tcConf1' = conformation
    /\ result' = ExtendedRegions(tcInput, tcConf1)'
    /\ op' = "ExtendedRegions"
    /\ UNCHANGED <<program, jobVars, pc, alphaRegions, betaRegions, alphaFinal,
                   betaFinal, coilFinal, predictedSequence, tcRegions1,
                   tcRegions2, tcConf2, tcArgs, icfVars, gorVars>>

\* the sequences the unit tests of the labelling functions set SEQUENCE to
\* (only the length is read)
LabelTestSequences ==
    {Repeat(residue, n) : residue \in Residues, n \in 0..LabelLen}

\* the region lists of those tests: a region may end past the sequence
LabelTestRegions(n) == SeqsUpTo(RegionsWithin(n + 1), LabelMaxRegions)

TestFindCoilRegions ==
    /\ program = "chou_fasman_test"
    /\ op = "none"
    /\ \E seq \in LabelTestSequences :
       \E alphaF \in LabelTestRegions(Len(seq)) :
       \E betaF \in LabelTestRegions(Len(seq)) :
           /\ SEQUENCE' = seq
           /\ tcRegions1' = alphaF
           /\ tcRegions2' = betaF
    /\ result' = FindCoilRegions(tcRegions1, tcRegions2)'
    /\ op' = "FindCoilRegions"
    /\ UNCHANGED <<program, jobVars, pc, alphaRegions, betaRegions, alphaFinal,
                   betaFinal, coilFinal, predictedSequence, tcInput, tcConf1,
                   tcConf2, tcArgs, icfVars, gorVars>>

TestPredictSequenceFromRegions ==
    /\ program = "chou_fasman_test"
    /\ op = "none"
    /\ \E seq \in LabelTestSequences :
       \E alphaF \in LabelTestRegions(Len(seq)) :
       \E betaF \in LabelTestRegions(Len(seq)) :
           /\ SEQUENCE' = seq
           /\ tcRegions1' = alphaF
           /\ tcRegions2' = betaF
    /\ result' = PredictSequenceFromRegions(tcRegions1, tcRegions2)'
    /\ op' = "PredictSequenceFromRegions"
    /\ UNCHANGED <<program, jobVars, pc, alphaRegions, betaRegions, alphaFinal,
                   betaFinal, coilFinal, predictedSequence, tcInput, tcConf1,
                   tcConf2, tcArgs, icfVars, gorVars>>

\* ------------------------------------------------------------------------
\* improved_chou_fasman: tables (hundredths)
\* ------------------------------------------------------------------------
hydrophobicity ==
    [G |-> 0, Q |-> 0, S |-> 7, T |-> 7, N |-> 9,
     D |-> 66, E |-> 67, R |-> 85, A |-> 87, H |-> 87,
     C |-> 152, K |-> 164, M |-> 167, V |-> 187, L |-> 217,
     Y |-> 276, P |-> 277, F |-> 287, I |-> 315, W |-> 377]

propensities ==
    [A |-> [Pa |-> 102, Pb |-> 83], R |-> [Pa |-> 98, Pb |-> 93],
     N |-> [Pa |-> 67, Pb |-> 89], D |-> [Pa |-> 101, Pb |-> 54],
     C |-> [Pa |-> 70, Pb |-> 119], E |-> [Pa |-> 151, Pb |-> 37],
     Q |-> [Pa |-> 111, Pb |-> 110], G |-> [Pa |-> 57, Pb |-> 75],
     H |-> [Pa |-> 100, Pb |-> 87], I |-> [Pa |-> 108, Pb |-> 160],
     L |-> [Pa |-> 121, Pb |-> 130], K |-> [Pa |-> 116, Pb |-> 74],
     M |-> [Pa |-> 145, Pb |-> 105], F |-> [Pa |-> 113, Pb |-> 138],
     P |-> [Pa |-> 57, Pb |-> 55], S |-> [Pa |-> 77, Pb |-> 75],
     T |-> [Pa |-> 83, Pb |-> 119], W |-> [Pa |-> 108, Pb |-> 137],
     Y |-> [Pa |-> 69, Pb |-> 147], V |-> [Pa |-> 106, Pb |-> 170]]

\* ------------------------------------------------------------------------
\* improved_chou_fasman: wavelet transform.  morlet(k / 9.0) in units of
\* 10^-4, rounded, for |k| = 0..27 (the kernel is even); the values of the
\* transform are therefore fixed-point approximations of the float64 ones.
\* ------------------------------------------------------------------------
morletTable ==
    <<10000, 8444, 4328, -906, -5493, -8009, -7861, -5421, -1783, 1720,
      4028, 4668, 3813, 2081, 227, -1150, -1771, -1679, -1136, -459,
      98, 409, 474, 373, 206, 52, -47, -84>>

\* morlet(float64(d) / scale) for scale = 9.0
morlet(d) == morletTable[(IF d < 0 THEN -d ELSE d) + 1]

\* int(3.0 * scale) for scale = 9.0
cwtWindow == 27

\* sum over k = from..to of seqVals[k] * morlet((k - b) / scale), k in range
RECURSIVE cwtSum(_, _, _, _)
cwtSum(seqVals, b, from, to) ==
    IF from > to THEN 0
    ELSE (IF from >= 0 /\ from < Len(seqVals)
          THEN seqVals[from + 1] * morlet(from - b) ELSE 0)
         + cwtSum(seqVals, b, from + 1, to)

\* coeffs[b] * math.Sqrt(scale) in units of 10^-6 (sqrt(9.0) = 3 is a
\* positive factor common to all coefficients)
computeCWT(seqVals) ==
    [b1 \in 1..Len(seqVals) |->
        cwtSum(seqVals, b1 - 1, b1 - 1 - cwtWindow, b1 - 1 + cwtWindow)]

Abs(x) == IF x < 0 THEN -x ELSE x

\* ------------------------------------------------------------------------
\* improved_chou_fasman: predictStructure
\* ------------------------------------------------------------------------
\* A. per-residue values; a residue missing from a table keeps the zero value
hValsOf(s) ==
    [i \in 1..Len(s) |->
        IF s[i] \in DOMAIN hydrophobicity THEN hydrophobicity[s[i]] ELSE 0]

paValsOf(s) ==
    [i \in 1..Len(s) |->
        IF s[i] \in DOMAIN propensities THEN propensities[s[i]].Pa ELSE 0]

pbValsOf(s) ==
    [i \in 1..Len(s) |->
        IF s[i] \in DOMAIN propensities THEN propensities[s[i]].Pb ELSE 0]

\* B. nucleation: strict local extremum of magnitude > 0.1, i.e.
\* |coeffs[i] * 3| > 0.3 = 300000 * 10^-6
NucleationSitesOf(s) ==
    LET n   == Len(s)
        cwt == computeCWT(hValsOf(s))
    IN  [i1 \in 1..n |->
            LET i == i1 - 1
            IN  /\ 1 <= i
                /\ i < n - 1
                /\ \/ cwt[i1] > cwt[i1 - 1] /\ cwt[i1] > cwt[i1 + 1]
                   \/ cwt[i1] < cwt[i1 - 1] /\ cwt[i1] < cwt[i1 + 1]
                /\ Abs(cwt[i1]) > 300000]

\* mutant: the left loop runs while left >= 3
RECURSIVE extendLeftFurther(_, _, _)
extendLeftFurther(left, scores, threshold) ==
    IF left >= 3
       /\ ~(scores[left + 1] + scores[left] + scores[left - 1]
              + scores[left - 2] < 4 * threshold)
    THEN extendLeftFurther(left - 1, scores, threshold)
    ELSE left

\* the two loops of extendBounds; avg < threshold is sum < 4 * threshold
RECURSIVE extendLeft(_, _, _)
extendLeft(left, scores, threshold) ==
    IF left >= 4
       /\ ~(scores[left + 1] + scores[left] + scores[left - 1]
              + scores[left - 2] < 4 * threshold)
    THEN extendLeft(left - 1, scores, threshold)
    ELSE left

RECURSIVE extendRight(_, _, _, _)
extendRight(right, n, scores, threshold) ==
    IF right < n - 4
       /\ ~(scores[right + 1] + scores[right + 2] + scores[right + 3]
              + scores[right + 4] < 4 * threshold)
    THEN extendRight(right + 1, n, scores, threshold)
    ELSE right

extendBounds(seed, n, scores, threshold) ==
    <<extendLeft(seed, scores, threshold),
      extendRight(seed, n, scores, threshold)>>

\* writing arr[i] for an i outside the slice panics
markRegionPanics(arr, L, R) == L <= R /\ (L < 0 \/ R >= Len(arr))

markRegion(arr, L, R) ==
    [i1 \in 1..Len(arr) |-> IF L <= i1 - 1 /\ i1 - 1 <= R THEN TRUE ELSE arr[i1]]

\* C. the loop over the seeds from index seed on, marking one of the arrays
RECURSIVE markSeeds(_, _, _, _, _)
markSeeds(arr, sites, seed, scores, threshold) ==
    IF seed >= Len(sites) THEN arr
    ELSE IF ~sites[seed + 1]
    THEN markSeeds(arr, sites, seed + 1, scores, threshold)
    ELSE LET b == extendBounds(seed, Len(sites), scores, threshold)
         IN  markSeeds(markRegion(arr, b[1], b[2]), sites, seed + 1,
                       scores, threshold)

markSeedsPanics(sites, scores, threshold) ==
    \E seed \in 0..(Len(sites) - 1) :
        /\ sites[seed + 1]
        /\ LET b == extendBounds(seed, Len(sites), scores, threshold)
           IN  markRegionPanics(sites, b[1], b[2])

\* D. per-residue resolution
resolveResidueDash(h, e, pa, pb) ==
    IF h /\ e THEN (IF pa >= pb THEN "H" ELSE "E")
    ELSE IF h THEN "H"
    ELSE IF e THEN "E"
    ELSE "-"

\* mutant: a position marked for helix is H whatever the propensities
resolveResidueHelixFirst(h, e, pa, pb) ==
    IF h THEN "H"
    ELSE IF e THEN "E"
    ELSE "C"

resolveResidue(h, e, pa, pb) ==
    IF h /\ e THEN (IF pa >= pb THEN "H" ELSE "E")
    ELSE IF h THEN "H"
    ELSE IF e THEN "E"
    ELSE "C"

\* E. one pass of cleanUpStructure from position i: runs of `label` shorter
\* than minLen become coil
RECURSIVE runEnd(_, _, _)
runEnd(runes, j, label) ==
    IF j < Len(runes) /\ runes[j + 1] = label THEN runEnd(runes, j + 1, label)
    ELSE j

RECURSIVE cleanPass(_, _, _, _)
cleanPass(runes, i, label, minLen) ==
    IF i >= Len(runes) THEN runes
    ELSE IF runes[i + 1] = label
    THEN LET j == runEnd(runes, i, label)
             cleaned == IF j - i < minLen
                        THEN [k1 \in 1..Len(runes) |->
                                 IF i <= k1 - 1 /\ k1 - 1 < j THEN "C"
                                 ELSE runes[k1]]
                        ELSE runes
         IN  cleanPass(cleaned, j, label, minLen)
    ELSE cleanPass(runes, i + 1, label, minLen)

\* mutant: a helix run of two residues is kept
cleanUpStructureLenient(s) == cleanPass(cleanPass(s, 0, "H", 2), 0, "E", 2)

cleanUpStructure(s) == cleanPass(cleanPass(s, 0, "H", 3), 0, "E", 2)

\* ------------------------------------------------------------------------
\* improved_chou_fasman: main() and the steps of predictStructure
\* ------------------------------------------------------------------------
ICFIdle ==
    /\ icfPc = "start"
    /\ icfSeq = <<>>
    /\ nucleationSites = <<>>
    /\ rawH = <<>>
    /\ rawE = <<>>
    /\ final = <<>>
    /\ icfOut = <<>>

\* predictStructure(seq) is entered
IcfCall ==
    /\ program = "improved_chou_fasman"
    /\ icfPc = "start"
    /\ \E s \in InputSequences : icfSeq' = s
    /\ icfPc' = "called"
    /\ UNCHANGED <<program, jobVars, cfVars, testVars, gorVars, nucleationSites, rawH, rawE,
                   final, icfOut>>

IcfNucleate ==
    /\ program = "improved_chou_fasman"
    /\ icfPc = "called"
    /\ nucleationSites' = NucleationSitesOf(icfSeq)
    /\ icfPc' = "nucleated"
    /\ UNCHANGED <<program, jobVars, cfVars, testVars, gorVars, icfSeq, rawH, rawE, final, icfOut>>

IcfExtend ==
    /\ program = "improved_chou_fasman"
    /\ icfPc = "nucleated"
    /\ LET n == Len(icfSeq)
           none == [i1 \in 1..n |-> FALSE]
       IN  IF \/ markSeedsPanics(nucleationSites, paValsOf(icfSeq), 100)
              \/ markSeedsPanics(nucleationSites, pbValsOf(icfSeq), 102)
           THEN icfPc' = "panic" /\ UNCHANGED <<rawH, rawE>>
           ELSE /\ rawH' = markSeeds(none, nucleationSites, 0,
                                     paValsOf(icfSeq), 100)
                /\ rawE' = markSeeds(none, nucleationSites, 0,
                                     pbValsOf(icfSeq), 102)
                /\ icfPc' = "extended"
    /\ UNCHANGED <<program, jobVars, cfVars, testVars, gorVars, icfSeq, nucleationSites, final,
                   icfOut>>

IcfResolve ==
    /\ program = "improved_chou_fasman"
    /\ icfPc = "extended"
    /\ final' = [i1 \in 1..Len(icfSeq) |->
                    resolveResidue(rawH[i1], rawE[i1], paValsOf(icfSeq)[i1],
                                   pbValsOf(icfSeq)[i1])]
    /\ icfPc' = "resolved"
    /\ UNCHANGED <<program, jobVars, cfVars, testVars, gorVars, icfSeq, nucleationSites, rawH,
                   rawE, icfOut>>

IcfCleanUp ==
    /\ program = "improved_chou_fasman"
    /\ icfPc = "resolved"
    /\ icfOut' = cleanUpStructure(final)
    /\ icfPc' = "done"
    /\ UNCHANGED <<program, jobVars, cfVars, testVars, gorVars, icfSeq, nucleationSites, rawH,
                   rawE, final>>

NextICF ==
    \/ IcfCall
    \/ IcfNucleate
    \/ IcfExtend
    \/ IcfResolve
    \/ IcfCleanUp

\* ------------------------------------------------------------------------
\* improved_chou_fasman: the unit tests
\* ------------------------------------------------------------------------
\* the label strings a test case of cleanUpStructure holds
CleanUpInputs == SeqsUpTo({"H", "E", "C"}, CleanLen)

TestCleanUpStructure ==
    /\ program = "improved_chou_fasman_test"
    /\ op = "none"
    /\ \E input \in CleanUpInputs :
           /\ tcInput' = input
           /\ result' = cleanUpStructure(input)
    /\ op' = "cleanUpStructure"
    /\ UNCHANGED <<program, jobVars, cfVars, tcRegions1, tcConf1, tcRegions2,
                   tcConf2, tcArgs, icfVars, gorVars>>

NextCleanUpTest == TestCleanUpStructure

\* the scores of a test case of extendBounds (hundredths), one per position
BoundsScores == {50, 100, 150}

\* the thresholds predictStructure passes
BoundsThresholds == {100, 102}

\* extendBounds on a seed inside a score list of n entries
TestExtendBounds ==
    /\ program = "improved_chou_fasman_test"
    /\ op = "none"
    /\ \E scores \in SeqsUpTo(BoundsScores, BoundsLen) :
       \E seed \in 0..(Len(scores) - 1) :
       \E threshold \in BoundsThresholds :
           /\ tcInput' = scores
           /\ tcArgs' = [seed |-> seed, n |-> Len(scores),
                         threshold |-> threshold]
           /\ result' = extendBounds(seed, Len(scores), scores, threshold)
    /\ op' = "extendBounds"
    /\ UNCHANGED <<program, jobVars, cfVars, tcRegions1, tcConf1, tcRegions2,
                   tcConf2, icfVars, gorVars>>

NextBoundsTest == TestExtendBounds

\* ------------------------------------------------------------------------
\* GOR: data.  A profile is a sequence of rows, a row a sequence of numbers
\* in hundredths (ParsePSSM divides percentages by 100, SeqToProfile writes
\* 1.0).  A matrix row is kept as [num, den]: entry k is num[k] / den, so
\* that normalization is exact.
\* ------------------------------------------------------------------------
aaList == <<"A", "R", "N", "D", "C", "Q", "E", "G", "H", "I",
            "L", "K", "M", "F", "P", "S", "T", "W", "Y", "V">>

ZeroRow == [k \in 1..Len(aaList) |-> 0]

OneHotRow(c) == [k \in 1..Len(aaList) |-> IF k = c THEN 100 ELSE 0]

MixedRow == [k \in 1..Len(aaList) |-> IF k = 1 THEN 75 ELSE IF k = 7 THEN 25 ELSE 0]

\* the kinds of profile row, in the order they are added
RowOrder == <<ZeroRow, OneHotRow(1), MixedRow, OneHotRow(7), OneHotRow(20)>>

RowKinds(n) == {RowOrder[k] : k \in 1..Min2(n, Len(RowOrder))}

RECURSIVE SumSeq(_)
SumSeq(row) == IF Len(row) = 0 THEN 0 ELSE row[1] + SumSeq(Tail(row))

RECURSIVE sumProfile(_)
sumProfile(profile) ==
    IF Len(profile) = 0 THEN 0
    ELSE SumSeq(profile[1]) + sumProfile(Tail(profile))

RECURSIVE Gcd(_, _)
Gcd(a, b) == IF b = 0 THEN a ELSE Gcd(b, a % b)

RECURSIVE GcdSeq(_)
GcdSeq(row) == IF Len(row) = 0 THEN 0 ELSE Gcd(row[1], GcdSeq(Tail(row)))

\* newMat(): windowSize rows of len(aaList) zeros
newMat(windowSize) ==
    [r \in 1..windowSize |-> [num |-> ZeroRow, den |-> 1]]

newModel(windowSize) ==
    [WindowSize |-> windowSize, AAList |-> aaList,
     H |-> newMat(windowSize), E |-> newMat(windowSize),
     C |-> newMat(windowSize)]

\* mutant: windowSize / 2
halfWindowOfHalf(windowSize) ==
    IF windowSize >= 1 THEN windowSize \div 2
    ELSE -((- windowSize) \div 2)

\* (windowSize - 1) / 2, the quotient truncated toward zero
halfWindowOf(windowSize) ==
    IF windowSize >= 1 THEN (windowSize - 1) \div 2
    ELSE -((1 - windowSize) \div 2)

\* ------------------------------------------------------------------------
\* GOR: TrainGOR
\* ------------------------------------------------------------------------
\* strings.ReplaceAll(ss, "C", "-")
ReplaceC(ss) == [i \in 1..Len(ss) |-> IF ss[i] = "C" THEN "-" ELSE ss[i]]

\* the matrix position i of the labels ss accumulates into
MatrixOf(ss, i) ==
    IF ss[i + 1] = "H" THEN "H" ELSE IF ss[i + 1] = "E" THEN "E" ELSE "C"

\* the window [start, end) of position i
WindowStart(i, halfWindow) == Max2(i - halfWindow, 0)

WindowEnd(i, halfWindow, len) == Min2(i + halfWindow + 1, len)

\* an index of the accumulation loops of position i is out of range
AccumulatePanics(mat, profile, i, halfWindow) ==
    \E j \in WindowStart(i, halfWindow)..(WindowEnd(i, halfWindow, Len(profile)) - 1) :
        LET rel == j - i + halfWindow
        IN  \/ rel < 0
            \/ rel >= Len(mat)
            \/ \E k \in 1..Len(profile[i + 1]) :
                   k > Len(mat[rel + 1].num) \/ k > Len(profile[j + 1])

\* mutant: only the row of position i itself is added, to the centre row
AccumulateCentreOnly(mat, profile, i, halfWindow) ==
    [r \in 1..Len(mat) |->
        IF r - 1 = halfWindow
        THEN [num |-> [k \in 1..Len(mat[r].num) |->
                          IF k <= Len(profile[i + 1])
                          THEN mat[r].num[k] + profile[i + 1][k]
                          ELSE mat[r].num[k]],
              den |-> mat[r].den]
        ELSE mat[r]]

\* mutant: mat[rel][k] = profile[j][k]
AccumulateOverwrite(mat, profile, i, halfWindow) ==
    [r \in 1..Len(mat) |->
        LET j == (r - 1) + i - halfWindow
        IN  IF /\ j >= WindowStart(i, halfWindow)
               /\ j < WindowEnd(i, halfWindow, Len(profile))
            THEN [num |-> [k \in 1..Len(mat[r].num) |->
                              IF k <= Len(profile[i + 1])
                              THEN profile[j + 1][k]
                              ELSE mat[r].num[k]],
                  den |-> mat[r].den]
            ELSE mat[r]]

\* mat[rel][k] += profile[j][k] for every j of the window of position i
Accumulate(mat, profile, i, halfWindow) ==
    [r \in 1..Len(mat) |->
        LET j == (r - 1) + i - halfWindow
        IN  IF /\ j >= WindowStart(i, halfWindow)
               /\ j < WindowEnd(i, halfWindow, Len(profile))
            THEN [num |-> [k \in 1..Len(mat[r].num) |->
                              IF k <= Len(profile[i + 1])
                              THEN mat[r].num[k] + profile[j + 1][k]
                              ELSE mat[r].num[k]],
                  den |-> mat[r].den]
            ELSE mat[r]]

\* the loop over the positions from i on: the model, unless an index was
\* out of range
RECURSIVE AccumulateExample(_, _, _, _)
AccumulateExample(model, profile, ss, i) ==
    IF i >= Len(profile) THEN [panic |-> FALSE, model |-> model]
    ELSE LET halfWindow == halfWindowOf(model.WindowSize)
             which == MatrixOf(ss, i)
             mat == model[which]
         IN  IF AccumulatePanics(mat, profile, i, halfWindow)
             THEN [panic |-> TRUE, model |-> model]
             ELSE AccumulateExample(
                      [model EXCEPT ![which] =
                           Accumulate(mat, profile, i, halfWindow)],
                      profile, ss, i + 1)

SkipsExampleEmptyOnly(profile) == Len(profile) = 0

\* the example is skipped before its label file is opened
SkipsExample(profile) == Len(profile) = 0 \/ sumProfile(profile) = 0

\* a nil *GORModel
nilModel == [nil |-> TRUE]

\* mutant: an example whose label string has another length is skipped
TrainOneSkipMismatch(model, example) ==
    IF ~example.pssmOk THEN [model |-> nilModel, err |-> "ParsePSSM"]
    ELSE IF SkipsExample(example.pssm) THEN [model |-> model, err |-> "nil"]
    ELSE IF ~example.dsspOk THEN [model |-> nilModel, err |-> "ParseDSSP"]
    ELSE LET ss == ReplaceC(example.dssp)
         IN  IF Len(ss) # Len(example.pssm)
             THEN [model |-> model, err |-> "nil"]
             ELSE LET m == AccumulateExample(model, example.pssm, ss, 0)
                  IN  IF m.panic THEN [model |-> nilModel, err |-> "panic"]
                      ELSE [model |-> m.model, err |-> "nil"]

\* mutant: an example whose label file cannot be read is skipped
TrainOneBestEffort(model, example) ==
    IF ~example.pssmOk THEN [model |-> nilModel, err |-> "ParsePSSM"]
    ELSE IF SkipsExample(example.pssm) THEN [model |-> model, err |-> "nil"]
    ELSE IF ~example.dsspOk THEN [model |-> model, err |-> "nil"]
    ELSE LET ss == ReplaceC(example.dssp)
         IN  IF Len(ss) # Len(example.pssm)
             THEN [model |-> nilModel, err |-> "length mismatch"]
             ELSE LET m == AccumulateExample(model, example.pssm, ss, 0)
                  IN  IF m.panic THEN [model |-> nilModel, err |-> "panic"]
                      ELSE [model |-> m.model, err |-> "nil"]

\* one iteration of the loop over the ids: example.pssm is the profile
\* ParsePSSM returns unless it fails (pssmOk), example.dssp the string
\* ParseDSSP returns unless it fails (dsspOk).  The result is the model to
\* go on with and the error returned.
TrainOne(model, example) ==
    IF ~example.pssmOk THEN [model |-> nilModel, err |-> "ParsePSSM"]
    ELSE IF SkipsExample(example.pssm) THEN [model |-> model, err |-> "nil"]
    ELSE IF ~example.dsspOk THEN [model |-> nilModel, err |-> "ParseDSSP"]
    ELSE LET ss == ReplaceC(example.dssp)
         IN  IF Len(ss) # Len(example.pssm)
             THEN [model |-> nilModel, err |-> "length mismatch"]
             ELSE LET m == AccumulateExample(model, example.pssm, ss, 0)
                  IN  IF m.panic THEN [model |-> nilModel, err |-> "panic"]
                      ELSE [model |-> m.model, err |-> "nil"]

normalizeRowUniform(row) ==
    LET sum == SumSeq(row.num)
    IN  IF sum > 0
        THEN LET g == GcdSeq(row.num)
             IN  [num |-> [k \in 1..Len(row.num) |-> row.num[k] \div g],
                  den |-> (row.den * sum) \div g]
        ELSE [num |-> [k \in 1..Len(row.num) |-> 1], den |-> Len(row.num)]

\* normalize: a row is divided by its sum when the sum is > 0
normalizeRow(row) ==
    LET sum == SumSeq(row.num)
    IN  IF sum > 0
        THEN LET g == GcdSeq(row.num)
             IN  [num |-> [k \in 1..Len(row.num) |-> row.num[k] \div g],
                  den |-> (row.den * sum) \div g]
        ELSE row

normalize(m) == [r \in 1..Len(m) |-> normalizeRow(m[r])]

\* the loop over n ids whose two files have the same content
RECURSIVE TrainLoop(_, _, _)
TrainLoop(model, example, n) ==
    IF n = 0 THEN [model |-> model, err |-> "nil"]
    ELSE LET r == TrainOne(model, example)
         IN  IF r.err # "nil" THEN r
             ELSE TrainLoop(r.model, example, n - 1)

\* the loop over the ids from the k-th on, examples[k] being what the two
\* files of the k-th id hold
RECURSIVE TrainIds(_, _, _)
TrainIds(model, examples, k) ==
    IF k > Len(examples) THEN [model |-> model, err |-> "nil"]
    ELSE LET r == TrainOne(model, examples[k])
         IN  IF r.err # "nil" THEN r
             ELSE TrainIds(r.model, examples, k + 1)

\* TrainGOR on an id list whose ids have the files `examples`
TrainGOROn(windowSize, examples) ==
    LET r == TrainIds(newModel(windowSize), examples, 1)
    IN  IF r.err = "panic"
        THEN [panic |-> TRUE, model |-> nilModel, err |-> "nil"]
        ELSE IF r.err # "nil"
        THEN [panic |-> FALSE, model |-> nilModel, err |-> r.err]
        ELSE [panic |-> FALSE,
              model |-> [r.model EXCEPT !.H = normalize(r.model.H),
                                        !.E = normalize(r.model.E),
                                        !.C = normalize(r.model.C)],
              err |-> "nil"]

\* TrainGOR on an id list of n ids: the model and the error returned, unless
\* an index was out of range (panic)
TrainGOR(windowSize, example, n) ==
    LET r == TrainLoop(newModel(windowSize), example, n)
    IN  IF r.err = "panic"
        THEN [panic |-> TRUE, model |-> nilModel, err |-> "nil"]
        ELSE IF r.err # "nil"
        THEN [panic |-> FALSE, model |-> nilModel, err |-> r.err]
        ELSE [panic |-> FALSE,
              model |-> [r.model EXCEPT !.H = normalize(r.model.H),
                                        !.E = normalize(r.model.E),
                                        !.C = normalize(r.model.C)],
              err |-> "nil"]

\* ------------------------------------------------------------------------
\* GOR: SaveGORModel / LoadGORModel.  The file holds the JSON object the
\* encoder writes: one member per exported field, named by its json tag.
\* ------------------------------------------------------------------------
EncodeModel(model) ==
    [window_size |-> model.WindowSize, aa_list |-> model.AAList,
     H |-> model.H, E |-> model.E, C |-> model.C]

DecodeModelSwapped(doc) ==
    [WindowSize |-> doc.window_size, AAList |-> doc.aa_list,
     H |-> doc.H, E |-> doc.C, C |-> doc.E]

DecodeModel(doc) ==
    [WindowSize |-> doc.window_size, AAList |-> doc.aa_list,
     H |-> doc.H, E |-> doc.E, C |-> doc.C]

\* ------------------------------------------------------------------------
\* GOR: PredictGOR
\* ------------------------------------------------------------------------
\* fractions <<numerator, denominator>>
FracAdd(a, b) == <<a[1] * b[2] + b[1] * a[2], a[2] * b[2]>>

\* the sum of x[k] * y[k] over the columns k..width
RECURSIVE Dot(_, _, _, _)
Dot(x, y, k, width) ==
    IF k > width THEN 0 ELSE x[k] * y[k] + Dot(x, y, k + 1, width)

\* an index of the scoring loops of position i is out of range
ScorePanics(model, profile, i) ==
    LET halfWindow == halfWindowOf(model.WindowSize)
    IN  \E j \in WindowStart(i, halfWindow)..(WindowEnd(i, halfWindow, Len(profile)) - 1) :
            LET rel == j - i + halfWindow
            IN  \/ rel < 0
                \/ rel >= Len(model.H) \/ rel >= Len(model.E)
                \/ rel >= Len(model.C)
                \/ \E k \in 1..Len(profile[i + 1]) :
                       \/ k > Len(profile[j + 1])
                       \/ k > Len(model.H[rel + 1].num)
                       \/ k > Len(model.E[rel + 1].num)
                       \/ k > Len(model.C[rel + 1].num)

\* the score of position i for one matrix: the sum over j = from..end-1
RECURSIVE ScoreFrom(_, _, _, _, _)
ScoreFrom(mat, profile, i, halfWindow, j) ==
    IF j >= WindowEnd(i, halfWindow, Len(profile)) THEN <<0, 1>>
    ELSE LET row == mat[j - i + halfWindow + 1]
         IN  FracAdd(<<Dot(profile[j + 1], row.num, 1, Len(profile[i + 1])),
                       row.den>>,
                     ScoreFrom(mat, profile, i, halfWindow, j + 1))

Score(mat, windowSize, profile, i) ==
    LET halfWindow == halfWindowOf(windowSize)
    IN  ScoreFrom(mat, profile, i, halfWindow, WindowStart(i, halfWindow))

PickLabelGE(scoreH, scoreE, scoreC) ==
    LET maxScore == IF RatGE(scoreE, scoreH) THEN scoreE ELSE scoreH
        label    == IF RatGE(scoreE, scoreH) THEN "E" ELSE "H"
    IN  IF RatGE(scoreC, maxScore) THEN "C" ELSE label

\* label := 'H'; a later class overrides only when strictly greater
PickLabel(scoreH, scoreE, scoreC) ==
    LET maxScore == IF RatGT(scoreE, scoreH) THEN scoreE ELSE scoreH
        label    == IF RatGT(scoreE, scoreH) THEN "E" ELSE "H"
    IN  IF RatGT(scoreC, maxScore) THEN "C" ELSE label

\* the string returned, unless an index was out of range
PredictGOR(model, profile) ==
    IF Len(profile) = 0 THEN [panic |-> FALSE, out |-> <<>>]
    ELSE IF \E i \in 0..(Len(profile) - 1) : ScorePanics(model, profile, i)
    THEN [panic |-> TRUE, out |-> <<>>]
    ELSE [panic |-> FALSE,
          out |-> [i1 \in 1..Len(profile) |->
             PickLabel(Score(model.H, model.WindowSize, profile, i1 - 1),
                       Score(model.E, model.WindowSize, profile, i1 - 1),
                       Score(model.C, model.WindowSize, profile, i1 - 1))]]

\* ------------------------------------------------------------------------
\* GOR: train/main.go followed by a run of predict/main.go
\* ------------------------------------------------------------------------
\* no id has been read
noExample == [id |-> "none"]

\* no file at the model path
absentFile == [exists |-> FALSE]

GORIdle ==
    /\ gorPc = "start"
    /\ gorModel = nilModel
    /\ gorErr = "nil"
    /\ gorCount = 0
    /\ gorExample = noExample
    /\ modelFile = absentFile
    /\ gorLoaded = nilModel
    /\ gorProfile = <<>>
    /\ gorOut = <<>>

\* the profiles a profile source can hold
Profiles(kinds, maxLen) == SeqsUpTo(RowKinds(kinds), maxLen)

\* the contents a label source can hold
LabelStrings == SeqsUpTo({"H", "E", "C"}, MaxProfileLen)

\* what the two files of an id can be
Examples ==
    [pssmOk : {TRUE}, pssm : Profiles(NumRowKinds, MaxProfileLen),
     dsspOk : {TRUE}, dssp : LabelStrings]
    \cup [pssmOk : {FALSE}, pssm : {<<>>}, dsspOk : {TRUE}, dssp : LabelStrings]
    \cup [pssmOk : {TRUE}, pssm : Profiles(NumRowKinds, MaxProfileLen),
          dsspOk : {FALSE}, dssp : {<<>>}]

\* TrainGOR up to the loop: the model is allocated, the id list is opened
TrainStart ==
    /\ program = "gor"
    /\ gorPc = "start"
    /\ \E windowSize \in 1..MaxWindow : \E opened \in BOOLEAN :
           IF opened
           THEN /\ gorModel' = newModel(windowSize)
                /\ gorErr' = "nil"
                /\ gorPc' = "training"
           ELSE /\ gorModel' = nilModel
                /\ gorErr' = "open"
                /\ gorPc' = "train_failed"
    /\ UNCHANGED <<program, jobVars, cfVars, testVars, icfVars, gorCount, gorExample,
                   modelFile, gorLoaded, gorProfile, gorOut>>

\* one iteration of the loop over the ids
TrainExample ==
    /\ program = "gor"
    /\ gorPc = "training"
    /\ gorCount < MaxExamples
    /\ \E example \in Examples :
           LET r == TrainOne(gorModel, example)
           IN  /\ gorExample' = example
               /\ gorModel' = r.model
               /\ gorErr' = r.err
               /\ gorPc' = IF r.err = "nil" THEN "training"
                           ELSE IF r.err = "panic" THEN "train_panic"
                           ELSE "train_failed"
    /\ gorCount' = gorCount + 1
    /\ UNCHANGED <<program, jobVars, cfVars, testVars, icfVars, modelFile, gorLoaded,
                   gorProfile, gorOut>>

\* the id list is exhausted: the three matrices are normalized and returned
TrainEnd ==
    /\ program = "gor"
    /\ gorPc = "training"
    /\ gorModel' = [gorModel EXCEPT !.H = normalize(gorModel.H),
                                    !.E = normalize(gorModel.E),
                                    !.C = normalize(gorModel.C)]
    /\ gorPc' = "trained"
    /\ gorExample' = noExample
    /\ UNCHANGED <<program, jobVars, cfVars, testVars, icfVars, gorErr, gorCount,
                   modelFile, gorLoaded, gorProfile, gorOut>>

\* mutant: train main saves whatever TrainGOR returned, error or not (the
\* encoder writes null for a nil model, which decodes to the zero GORModel)
SaveModelUnchecked ==
    /\ program = "gor"
    /\ gorPc \in {"trained", "train_failed"}
    /\ modelFile' =
           [exists |-> TRUE,
            doc |-> IF gorModel = nilModel
                    THEN EncodeModel([WindowSize |-> 0, AAList |-> <<>>,
                                      H |-> <<>>, E |-> <<>>, C |-> <<>>])
                    ELSE EncodeModel(gorModel)]
    /\ gorErr' = "nil"
    /\ gorPc' = "saved"
    /\ UNCHANGED <<program, jobVars, cfVars, testVars, icfVars, gorModel, gorCount,
                   gorExample, gorLoaded, gorProfile, gorOut>>

\* train main: SaveGORModel(model, outModel)
SaveModel ==
    /\ program = "gor"
    /\ gorPc = "trained"
    /\ \E created \in BOOLEAN :
           IF created
           THEN /\ modelFile' = [exists |-> TRUE, doc |-> EncodeModel(gorModel)]
                /\ gorErr' = "nil"
                /\ gorPc' = "saved"
           ELSE /\ modelFile' = modelFile
                /\ gorErr' = "create"
                /\ gorPc' = "save_failed"
    /\ UNCHANGED <<program, jobVars, cfVars, testVars, icfVars, gorModel, gorCount,
                   gorExample, gorLoaded, gorProfile, gorOut>>

\* predict main: LoadGORModel(modelFile)
LoadModel ==
    /\ program = "gor"
    /\ gorPc \in {"saved", "train_failed", "save_failed"}
    /\ IF ~modelFile.exists
       THEN /\ gorLoaded' = nilModel
            /\ gorErr' = "open"
            /\ gorPc' = "load_failed"
       ELSE /\ gorLoaded' = DecodeModel(modelFile.doc)
            /\ gorErr' = "nil"
            /\ gorPc' = "loaded"
    /\ UNCHANGED <<program, jobVars, cfVars, testVars, icfVars, gorModel, gorCount,
                   gorExample, modelFile, gorProfile, gorOut>>

\* predict main: the profile is read (ParsePSSM, or ParseFASTA and
\* SeqToProfile) and PredictGOR(model, profile) is called
PredictRun ==
    /\ program = "gor"
    /\ gorPc = "loaded"
    /\ \/ /\ gorPc' = "profile_failed"
          /\ gorErr' = "profile"
          /\ UNCHANGED <<gorProfile, gorOut>>
       \/ /\ \E profile \in Profiles(NumRowKinds, MaxProfileLen) :
                 LET ss == PredictGOR(gorLoaded, profile)
                 IN  /\ gorProfile' = profile
                     /\ IF ss.panic
                        THEN gorPc' = "panic" /\ gorOut' = gorOut
                        ELSE gorPc' = "predicted" /\ gorOut' = ss.out
          /\ gorErr' = gorErr
    /\ UNCHANGED <<program, jobVars, cfVars, testVars, icfVars, gorModel, gorCount,
                   gorExample, modelFile, gorLoaded>>

NextGOR ==
    \/ TrainStart
    \/ TrainExample
    \/ TrainEnd
    \/ SaveModel
    \/ LoadModel
    \/ PredictRun

\* ------------------------------------------------------------------------
\* GOR: the unit test of PredictGOR, on a model and a profile of its test case
\* ------------------------------------------------------------------------
\* the well-formed models: windowSize rows of len(aaList) numbers per matrix
TestMatrices(windowSize) ==
    [1..windowSize -> [num : RowKinds(TestRowKinds), den : {1}]]

TestPredictGOR ==
    /\ program = "gor_test"
    /\ op = "none"
    /\ \E windowSize \in 1..TestMaxWindow :
       \E h \in TestMatrices(windowSize) :
       \E e \in TestMatrices(windowSize) :
       \E c \in TestMatrices(windowSize) :
       \E profile \in Profiles(TestRowKinds, TestProfileLen) :
           /\ gorLoaded' = [WindowSize |-> windowSize, AAList |-> aaList,
                            H |-> h, E |-> e, C |-> c]
           /\ gorProfile' = profile
    /\ LET ss == PredictGOR(gorLoaded', gorProfile')
       IN  IF ss.panic
           THEN gorPc' = "panic" /\ gorOut' = gorOut
           ELSE gorPc' = "predicted" /\ gorOut' = ss.out
    /\ op' = "PredictGOR"
    /\ UNCHANGED <<program, jobVars, cfVars, tcInput, tcRegions1, tcConf1, tcRegions2,
                   tcConf2, result, tcArgs, icfVars, gorModel, gorErr, gorCount,
                   gorExample, modelFile>>

NextGorTest == TestPredictGOR

\* ------------------------------------------------------------------------
\* GOR: the unit test of TrainGOR.  Every id of the list gets the same
\* profile file and the same label file (none when the content is empty);
\* a data line of the profile file with f >= 24 fields gives a row of f - 24
\* numbers.
\* ------------------------------------------------------------------------
\* the row of a data line with width + 24 fields
RowOfWidth(width) == [k \in 1..width |-> IF k = 1 THEN 100 ELSE 0]

TrainTestRows ==
    {RowOfWidth(width) :
        width \in (Len(aaList) - WidthSlack)..(Len(aaList) + WidthSlack)}

TrainTestLabels == SeqsUpTo({"H", "E", "C"}, TrainTestLen)

TrainTestExamples ==
    [pssmOk : {TRUE}, pssm : SeqsUpTo(TrainTestRows, TrainTestLen),
     dsspOk : {TRUE}, dssp : TrainTestLabels]
    \cup [pssmOk : {FALSE}, pssm : {<<>>}, dsspOk : {TRUE}, dssp : TrainTestLabels]
    \cup [pssmOk : {TRUE}, pssm : SeqsUpTo(TrainTestRows, TrainTestLen),
          dsspOk : {FALSE}, dssp : {<<>>}]

TestTrainGOR ==
    /\ program = "gor_test"
    /\ op = "none"
    /\ \E windowSize \in 1..TrainTestWindow :
       \E n \in 0..TrainTestIds :
       \E example \in TrainTestExamples :
           LET r == TrainGOR(windowSize, example, n)
           IN  /\ tcArgs' = [WindowSize |-> windowSize]
               /\ gorCount' = n
               /\ gorExample' = example
               /\ gorModel' = r.model
               /\ gorErr' = r.err
               /\ gorPc' = IF r.panic THEN "train_panic"
                           ELSE IF r.err # "nil" THEN "train_failed"
                           ELSE "trained"
    /\ op' = "TrainGOR"
    /\ UNCHANGED <<program, jobVars, cfVars, tcInput, tcRegions1, tcConf1, tcRegions2,
                   tcConf2, result, icfVars, modelFile, gorLoaded, gorProfile,
                   gorOut>>

NextTrainTest == TestTrainGOR

\* ------------------------------------------------------------------------
\* GOR: TrainGOR on an id list and on the same ids in another order
\* ------------------------------------------------------------------------
OrderExamples ==
    [pssmOk : {TRUE}, pssm : Profiles(OrderRowKinds, OrderProfileLen),
     dsspOk : {TRUE}, dssp : SeqsUpTo({"H", "E", "C"}, OrderProfileLen)]
    \cup [pssmOk : {FALSE}, pssm : {<<>>}, dsspOk : {TRUE},
          dssp : SeqsUpTo({"H", "E", "C"}, OrderProfileLen)]
    \cup [pssmOk : {TRUE}, pssm : Profiles(OrderRowKinds, OrderProfileLen),
          dsspOk : {FALSE}, dssp : {<<>>}]

\* the orders of n ids
Orders(n) ==
    {p \in [1..n -> 1..n] : \A a \in 1..n : \A b \in 1..n : p[a] = p[b] => a = b}

TrainBothOrders ==
    /\ program = "gor_test"
    /\ op = "none"
    /\ \E windowSize \in 1..OrderWindow :
       \E examples \in SeqsUpTo(OrderExamples, OrderIds) :
       \E p \in Orders(Len(examples)) :
           LET permuted == [k \in 1..Len(examples) |-> examples[p[k]]]
           IN  /\ tcArgs' = [WindowSize |-> windowSize]
               /\ tcInput' = examples
               /\ tcRegions1' = permuted
               /\ result' = <<TrainGOROn(windowSize, examples),
                              TrainGOROn(windowSize, permuted)>>
    /\ op' = "TrainGOR, TrainGOR"
    /\ UNCHANGED <<program, jobVars, cfVars, tcConf1, tcRegions2, tcConf2,
                   icfVars, gorVars>>

NextOrderTest == TrainBothOrders

\* ------------------------------------------------------------------------
\* The programs: each behaviour is one run of one executable or test binary
\* ------------------------------------------------------------------------
AllIdle ==
    /\ CFIdle
    /\ TestIdle
    /\ ICFIdle
    /\ GORIdle
    /\ JobsIdle

NextSolveTest == TestSolveOverlaps

NextMergeTest ==
    \/ TestMergeOverlappingRegions
    \/ TestTryMerging

InitCF == program = "chou_fasman" /\ AllIdle

SpecCF == InitCF /\ [][NextCF]_vars

InitTest == program = "chou_fasman_test" /\ AllIdle

SpecSolveTest == InitTest /\ [][NextSolveTest]_vars

SpecMergeTest == InitTest /\ [][NextMergeTest]_vars

NextNucleationTest == TestIsNucleationRegion

NextExtendTest == TestExtendedRegions

NextFindTest == TestFindNucleationRegion

SpecFindTest == InitTest /\ [][NextFindTest]_vars

NextCoilTest == TestFindCoilRegions

NextPaintTest == TestPredictSequenceFromRegions

SpecCoilTest == InitTest /\ [][NextCoilTest]_vars

SpecPaintTest == InitTest /\ [][NextPaintTest]_vars

SpecExtendTest == InitTest /\ [][NextExtendTest]_vars

SpecNucleationTest == InitTest /\ [][NextNucleationTest]_vars

InitICF == program = "improved_chou_fasman" /\ AllIdle

SpecICF == InitICF /\ [][NextICF]_vars

InitIcfTest == program = "improved_chou_fasman_test" /\ AllIdle

\* cleanUpStructure on its test cases and as the last step of predictStructure
InitCleanUp ==
    /\ program \in {"improved_chou_fasman", "improved_chou_fasman_test"}
    /\ AllIdle

NextCleanUp ==
    \/ NextICF
    \/ NextCleanUpTest

SpecCleanUp == InitCleanUp /\ [][NextCleanUp]_vars

\* extendBounds on its test cases and inside predictStructure
NextBounds ==
    \/ NextICF
    \/ NextBoundsTest

SpecBounds == InitCleanUp /\ [][NextBounds]_vars

InitGOR == program = "gor" /\ AllIdle

SpecGOR == InitGOR /\ [][NextGOR]_vars

InitGorTest == program = "gor_test" /\ AllIdle

SpecGorTest == InitGorTest /\ [][NextGorTest]_vars

SpecTrainTest == InitGorTest /\ [][NextTrainTest]_vars

SpecOrderTest == InitGorTest /\ [][NextOrderTest]_vars

\* the three predictors
PredictorPrograms == {"chou_fasman", "improved_chou_fasman", "gor_test"}

InitPredictors == program \in PredictorPrograms /\ AllIdle

NextPredictors ==
    \/ NextCF
    \/ NextICF
    \/ NextGorTest

SpecPredictors == InitPredictors /\ [][NextPredictors]_vars

InitJobs == program = "chou_fasman_jobs" /\ AllIdle

SpecJobs == InitJobs /\ [][NextJobs]_vars

Programs == {"chou_fasman", "chou_fasman_test", "chou_fasman_jobs",
             "improved_chou_fasman", "improved_chou_fasman_test", "gor",
             "gor_test"}

Init == program \in Programs /\ AllIdle

Next ==
    \/ NextCF
    \/ NextSolveTest
    \/ NextMergeTest
    \/ NextNucleationTest
    \/ NextExtendTest
    \/ NextFindTest
    \/ NextCoilTest
    \/ NextPaintTest
    \/ NextICF
    \/ NextCleanUpTest
    \/ NextBoundsTest
    \/ NextGOR
    \/ NextGorTest
    \/ NextTrainTest
    \/ NextOrderTest
    \/ NextJobs

Spec == Init /\ [][Next]_vars

\* ------------------------------------------------------------------------
\* Claims
\* ------------------------------------------------------------------------
Labels == {"H", "E", "C"}

\* positions covered by a list of regions
Covered(regions) ==
    UNION {regions[k].Start..(regions[k].End - 1) : k \in 1..Len(regions)}

\* x occurs in the list
Contains(list, x) == \E k \in 1..Len(list) : list[k] = x

\* every character of s is H, E or C
OverLabels(s) == \A i \in 1..Len(s) : s[i] \in Labels

C2_Partition ==
    (program = "chou_fasman" /\ pc \in {"coiled", "done"}) =>
        LET all == alphaFinal \o betaFinal \o coilFinal
        IN  /\ \A i \in 0..(Len(SEQUENCE) - 1) :
                   Cardinality({k \in 1..Len(all) :
                       all[k].Start <= i /\ i < all[k].End}) = 1
            /\ \A k \in 1..Len(all) :
                   0 <= all[k].Start /\ all[k].Start < all[k].End
                   /\ all[k].End <= Len(SEQUENCE)

C2_Witness ==
    /\ program = "chou_fasman"
    /\ pc = "done"
    /\ Len(alphaRegions) > 0
    /\ Len(alphaFinal) = 0
    /\ Len(betaFinal) > 0
    /\ Len(coilFinal) > 0

\* C3: a helix region and a strand region that overlap and have exactly equal
\* averages: the helix region is kept (unless another overlapping strand
\* region is strictly stronger) when the helix set is passed first, and the
\* strand region is dropped when the strand set is passed first.
C3_HelixWinsTie ==
    (program = "chou_fasman_test" /\ op = "SolveOverlaps") =>
        \A a \in 1..Len(tcInput) : \A b \in 1..Len(tcRegions2) :
            LET ra == tcInput[a]
                rb == tcRegions2[b]
                BeatenByAnother ==
                    \E c \in 1..Len(tcRegions2) :
                        /\ AreOverlapping(ra, tcConf1, tcRegions2[c], tcConf2)
                        /\ RatGT(AverageParam(tcRegions2[c], tcConf2),
                                 AverageParam(ra, tcConf1))
            IN  (/\ AreOverlapping(ra, tcConf1, rb, tcConf2)
                 /\ RatEQ(AverageParam(ra, tcConf1), AverageParam(rb, tcConf2)))
                => /\ (tcConf1 = "alpha" /\ ~BeatenByAnother)
                          => Contains(result, ra)
                   /\ tcConf1 = "beta" => ~Contains(result, ra)

\* C4: SolveOverlaps returns regions of setA unmodified and in order; a setA
\* region strictly stronger than every setB region it overlaps is kept, and a
\* setA region strictly weaker than some setB region it overlaps is dropped.
C4_WinnersKept ==
    (program = "chou_fasman_test" /\ op = "SolveOverlaps") =>
        LET InResult(r) == Contains(result, r)
            Over(ra) == {c \in 1..Len(tcRegions2) :
                            AreOverlapping(ra, tcConf1, tcRegions2[c], tcConf2)}
        IN  /\ result = SelectSeq(tcInput, InResult)
            /\ \A a \in 1..Len(tcInput) :
                   LET ra == tcInput[a]
                   IN  /\ (\A c \in Over(ra) :
                              RatGT(AverageParam(ra, tcConf1),
                                    AverageParam(tcRegions2[c], tcConf2)))
                          => Contains(result, ra)
                       /\ (\E c \in Over(ra) :
                              RatGT(AverageParam(tcRegions2[c], tcConf2),
                                    AverageParam(ra, tcConf1)))
                          => ~Contains(result, ra)

C7_MergeDisjointSorted ==
    (program = "chou_fasman_test" /\ op = "MergeOverlappingRegions") =>
        /\ \A k \in 1..(Len(result) - 1) : result[k].End < result[k + 1].Start
        /\ \A k \in 1..Len(result) : result[k].Start < result[k].End
        /\ Covered(result) = Covered(tcInput)

C7_Witness ==
    /\ program = "chou_fasman_test"
    /\ op = "MergeOverlappingRegions"
    /\ Len(tcInput) = 3
    /\ tcInput[1].Start > tcInput[2].Start
    /\ tcInput[3].End = tcInput[2].Start
    /\ Len(result) = 2

\* the three scores of position i1 (1-based) in the test case
TestScore(which, i1) ==
    Score(gorLoaded[which], gorLoaded.WindowSize, gorProfile, i1 - 1)

\* C5: at every position PredictGOR assigns C exactly when the Coil score is
\* strictly greater than both other scores, otherwise E exactly when the
\* Strand score is strictly greater than the Helix score, otherwise H; three
\* equal scores give H, and Strand = Coil > Helix gives E.
C5_TieBreak ==
    (program = "gor_test" /\ op = "PredictGOR" /\ gorPc = "predicted") =>
        \A i1 \in 1..Len(gorProfile) :
            LET sH == TestScore("H", i1)
                sE == TestScore("E", i1)
                sC == TestScore("C", i1)
                coil == RatGT(sC, sH) /\ RatGT(sC, sE)
            IN  /\ gorOut[i1] = "C" <=> coil
                /\ gorOut[i1] = "E" <=> (~coil /\ RatGT(sE, sH))
                /\ gorOut[i1] = "H" <=> (~coil /\ ~RatGT(sE, sH))
                /\ (RatEQ(sH, sE) /\ RatEQ(sE, sC)) => gorOut[i1] = "H"
                /\ (RatEQ(sE, sC) /\ RatGT(sE, sH)) => gorOut[i1] = "E"

C5_Witness ==
    /\ program = "gor_test"
    /\ op = "PredictGOR"
    /\ gorPc = "predicted"
    /\ \E i1 \in 1..Len(gorProfile) :
           /\ RatEQ(TestScore("H", i1), TestScore("E", i1))
           /\ RatEQ(TestScore("E", i1), TestScore("C", i1))
           /\ RatGT(TestScore("H", i1), <<0, 1>>)
           /\ gorOut[i1] = "H"
    /\ \E i1 \in 1..Len(gorProfile) :
           /\ RatEQ(TestScore("E", i1), TestScore("C", i1))
           /\ RatGT(TestScore("E", i1), TestScore("H", i1))
           /\ gorOut[i1] = "E"

\* the id read in this step has a profile that sums to zero
ReadsZeroSumExample ==
    /\ program = "gor"
    /\ gorPc = "training"
    /\ gorCount' = gorCount + 1
    /\ gorExample'.pssmOk
    /\ sumProfile(gorExample'.pssm) = 0

\* C8: a training example whose profile sums to zero changes none of the
\* three matrices and raises no error: training goes on from the same model,
\* as if the example were not in the list.
C8_ZeroSumSkipped ==
    [][ReadsZeroSumExample =>
           /\ gorModel' = gorModel
           /\ gorErr' = "nil"
           /\ gorPc' = "training"]_vars

\* some row of the matrix has weight
HasWeight(mat) == \E r \in 1..Len(mat) : SumSeq(mat[r].num) > 0

C8_Witness ==
    /\ program = "gor"
    /\ gorPc = "training"
    /\ gorCount >= 2
    /\ gorExample.pssmOk
    /\ Len(gorExample.pssm) > 0
    /\ sumProfile(gorExample.pssm) = 0
    /\ ~gorExample.dsspOk
    /\ gorErr = "nil"
    /\ HasWeight(gorModel.H)

\* C9: when TrainGOR returns, each row of H, E and C that accumulated
\* non-zero weight sums to 1 and each row that accumulated zero weight is
\* all-zero.
C9_RowsNormalized ==
    [][(program = "gor" /\ gorPc = "training" /\ gorPc' = "trained") =>
           \A which \in Labels : \A r \in 1..gorModel.WindowSize :
               LET before == gorModel[which][r]
                   after  == gorModel'[which][r]
               IN  IF SumSeq(before.num) # 0
                   THEN SumSeq(after.num) = after.den
                   ELSE \A k \in 1..Len(after.num) : after.num[k] = 0]_vars

C9_Witness ==
    /\ program = "gor"
    /\ gorPc = "trained"
    /\ \E r \in 1..gorModel.WindowSize :
           /\ gorModel.H[r].den > 1
           /\ SumSeq(gorModel.H[r].num) = gorModel.H[r].den
           /\ \E k \in 1..Len(aaList) :
                  gorModel.H[r].num[k] > 0 /\ gorModel.H[r].num[k] < gorModel.H[r].den
    /\ \E r \in 1..gorModel.WindowSize :
           \A k \in 1..Len(aaList) : gorModel.H[r].num[k] = 0

C11_AllHelix ==
    (program = "chou_fasman" /\ SEQUENCE = Repeat("E", 10)) =>
        /\ pc # "panic"
        /\ pc = "nucleated" =>
               /\ alphaRegions = [k \in 1..5 |-> Region(k - 1, k + 5)]
               /\ betaRegions = <<>>
        /\ pc \in {"extended", "filtered"} =>
               /\ alphaRegions = [k \in 1..5 |-> Region(0, 10)]
               /\ betaRegions = <<>>
        /\ pc = "merged" =>
               /\ alphaRegions = <<Region(0, 10)>>
               /\ betaRegions = <<>>
        /\ pc \in {"solved", "coiled", "done"} =>
               /\ alphaFinal = <<Region(0, 10)>>
               /\ betaFinal = <<>>
        /\ pc = "done" => predictedSequence = Repeat("H", 10)

C11_Witness ==
    /\ program = "chou_fasman"
    /\ SEQUENCE = Repeat("E", 10)
    /\ pc = "done"
    /\ predictedSequence = Repeat("H", 10)

\* C12: a prediction whose steps are interleaved with those of a prediction
\* for another sequence returns exactly the result the same prediction
\* returns when it runs alone.
C12_InterleavedAsAlone ==
    (program = "chou_fasman_jobs" /\ pc = "jobs") =>
        /\ jobs[1].pc = "done" =>
               jobs[1].predictedSequence = jobs[0].predictedSequence
        /\ jobs[1].pc = "panic" => jobs[0].pc = "panic"

\* an id is read in this step
ReadsExample ==
    /\ program = "gor"
    /\ gorPc = "training"
    /\ gorCount' = gorCount + 1

\* TrainGOR returns an error and no model in this step
TrainAborts ==
    /\ gorPc' = "train_failed"
    /\ gorErr' # "nil"
    /\ gorModel' = nilModel

\* C13: when the label string of an example with non-zero profile mass has
\* a length other than the number of profile rows, TrainGOR returns an error
\* and no model, whatever was accumulated before.
C13_MismatchAborts ==
    [][(/\ ReadsExample
        /\ gorExample'.pssmOk
        /\ gorExample'.dsspOk
        /\ sumProfile(gorExample'.pssm) # 0
        /\ Len(gorExample'.dssp) # Len(gorExample'.pssm))
       => (TrainAborts /\ gorErr' = "length mismatch")]_vars

C13_Witness ==
    /\ program = "gor"
    /\ gorPc = "train_failed"
    /\ gorErr = "length mismatch"
    /\ gorModel = nilModel
    /\ gorCount >= 2
    /\ Len(gorExample.dssp) = 1
    /\ Len(gorExample.pssm) = 2

\* C14 as stated: when the profile or the label of a listed example cannot be
\* obtained, TrainGOR returns an error and no model.
C14_MissingSourceAborts ==
    [][(ReadsExample /\ (~gorExample'.pssmOk \/ ~gorExample'.dsspOk))
       => TrainAborts]_vars

\* C14 amended: when the profile of a listed example cannot be obtained, or
\* the label of a listed example whose profile is non-empty with non-zero
\* mass cannot be obtained, TrainGOR returns an error and no model.
C14_MissingNeededSourceAborts ==
    [][(/\ ReadsExample
        /\ \/ ~gorExample'.pssmOk
           \/ ~gorExample'.dsspOk /\ ~SkipsExample(gorExample'.pssm))
       => TrainAborts]_vars

C14_Witness ==
    /\ program = "gor"
    /\ gorPc = "train_failed"
    /\ gorErr = "ParseDSSP"
    /\ gorModel = nilModel
    /\ gorCount >= 2
    /\ ~gorExample.dsspOk
    /\ sumProfile(gorExample.pssm) > 0

\* the number of residues of [from, to) whose parameter is above minParam
RECURSIVE CountAbove(_, _, _, _)
CountAbove(from, to, conformation, minParam) ==
    IF from >= to THEN 0
    ELSE (IF ConformationParameter(SEQUENCE[from + 1], conformation) > minParam
          THEN 1 ELSE 0)
         + CountAbove(from + 1, to, conformation, minParam)

\* the average of the region [s, e), 0 <= s < e <= L, as a fraction
AverageOf(region, conformation) ==
    <<SumParam(region.Start, region.End, conformation),
      region.End - region.Start>>

WindowExtends(w, conformation) ==
    /\ 0 <= w
    /\ w + 4 <= Len(SEQUENCE)
    /\ RatGE(AverageOf(Region(w, w + 4), conformation), <<100, 1>>)

\* n is the number of consecutive one-residue shifts from the window at w in
\* direction dir (-1 toward the N-terminus, 1 toward the C-terminus) that
\* extend: all of the first n do and the next one does not
IsExtension(n, w, dir, conformation) ==
    /\ n >= 0
    /\ \A m \in 1..n : WindowExtends(w + dir * m, conformation)
    /\ ~WindowExtends(w + dir * (n + 1), conformation)

GorAborted == {"train_failed", "save_failed", "load_failed", "profile_failed"}

\* C17: the model file is written only by a training run that succeeded,
\* PredictGOR is called only on a model that was loaded successfully, and a
\* run in which training or loading fails writes no model file and outputs
\* no prediction.
C17_Lifecycle ==
    /\ [][(program = "gor" /\ modelFile' # modelFile)
            => /\ gorPc = "trained"
               /\ gorErr = "nil"
               /\ gorModel # nilModel
               /\ gorPc' = "saved"]_vars
    /\ [][(program = "gor" /\ gorPc' # gorPc /\ gorPc' \in {"predicted", "panic"})
            => /\ gorPc = "loaded"
               /\ gorErr = "nil"
               /\ gorLoaded # nilModel
               /\ modelFile.exists]_vars
    /\ [][(program = "gor" /\ gorPc = "load_failed") => gorPc' = gorPc]_vars
    /\ []((program = "gor" /\ gorPc = "train_failed")
            => (gorModel = nilModel /\ ~modelFile.exists))
    /\ []((program = "gor" /\ gorPc \in GorAborted) => gorOut = <<>>)
    /\ []((program = "gor" /\ gorPc = "load_failed") => gorLoaded = nilModel)

C17_Witness ==
    /\ program = "gor"
    /\ gorPc = "predicted"
    /\ modelFile.exists
    /\ gorCount >= 1
    /\ Len(gorOut) = 2

\* C18: the helix and the strand propensity of a residue that is in no
\* propensity table is 1.0, for ConformationParameter and for the paVals and
\* pbVals of predictStructure.
C18_NeutralDefault ==
    /\ \A residue \in Residues :
           /\ residue \notin DOMAIN alphaParam
                  => ConformationParameter(residue, "alpha") = 100
           /\ residue \notin DOMAIN betaParam
                  => ConformationParameter(residue, "beta") = 100
    /\ (program = "improved_chou_fasman" /\ icfPc # "start") =>
           \A i1 \in 1..Len(icfSeq) :
               icfSeq[i1] \notin DOMAIN propensities
                   => /\ paValsOf(icfSeq)[i1] = 100
                      /\ pbValsOf(icfSeq)[i1] = 100

\* the profile read for the ids has a row whose width is not len(aaList)
MalformedWidth(profile) ==
    \E i1 \in 1..Len(profile) : Len(profile[i1]) # Len(aaList)

\* C19: when the training profile has a row whose width is not 20 (narrower,
\* wider, or rows of unequal width), TrainGOR returns an error and no model;
\* it neither returns a model nor panics.
C19_MalformedWidthAborts ==
    (/\ program = "gor_test"
     /\ op = "TrainGOR"
     /\ gorCount >= 1
     /\ gorExample.pssmOk
     /\ MalformedWidth(gorExample.pssm))
        => /\ gorPc = "train_failed"
           /\ gorErr # "nil"
           /\ gorModel = nilModel

\* the class matrix of a label
ClassOf(label) ==
    IF label = "H" THEN "H" ELSE IF label = "E" THEN "E" ELSE "C"

\* what the positions 0..n-1 of an example add to column k of row rel of
\* the matrix of a class: profile[j][k] for j = rel + i - half, for every
\* position i of that class whose clipped window holds j
RECURSIVE AddedBy(_, _, _, _, _, _, _)
AddedBy(profile, label, class, rel, k, half, n) ==
    IF n = 0 THEN 0
    ELSE LET i == n - 1
             j == rel + i - half
         IN  AddedBy(profile, label, class, rel, k, half, n - 1)
             + (IF /\ ClassOf(label[i + 1]) = class
                   /\ j >= i - half /\ j <= i + half
                   /\ j >= 0 /\ j <= Len(profile) - 1
                THEN profile[j + 1][k]
                ELSE 0)

\* C20: a non-skipped training example adds profile row j to row
\* j - i + half of the matrix of the class of label[i] (Helix for H, Strand
\* for E, Coil for any other label), for every position i and every j in
\* [i - half, i + half] clipped to [0, L - 1] with half = (W - 1) / 2, and
\* adds nothing else to any row of any matrix.
C20_AccumulationRule ==
    [][(/\ ReadsExample
        /\ gorPc' = "training"
        /\ ~SkipsExample(gorExample'.pssm))
       => /\ gorModel'.WindowSize = gorModel.WindowSize
          /\ \A class \in {"H", "E", "C"} :
                 /\ Len(gorModel'[class]) = gorModel.WindowSize
                 /\ \A r \in 1..gorModel.WindowSize :
                        /\ gorModel'[class][r].den = gorModel[class][r].den
                        /\ \A k \in 1..Len(aaList) :
                               gorModel'[class][r].num[k]
                                   = gorModel[class][r].num[k]
                                     + AddedBy(gorExample'.pssm, gorExample'.dssp,
                                               class, r - 1, k,
                                               (gorModel.WindowSize - 1) \div 2,
                                               Len(gorExample'.pssm))]_vars

\* an example of two positions, one helix and one strand, has been added to
\* a model of window 3: each position put its neighbour in an off-centre row
C20_Witness ==
    /\ program = "gor"
    /\ gorPc = "training"
    /\ gorCount >= 1
    /\ gorExample # noExample
    /\ gorExample.pssmOk
    /\ ~SkipsExample(gorExample.pssm)
    /\ gorExample.dsspOk
    /\ gorExample.dssp = <<"H", "E">>
    /\ gorModel.WindowSize = 3
    /\ SumSeq(gorModel.H[3].num) > 0
    /\ SumSeq(gorModel.E[1].num) > 0
    /\ SumSeq(gorModel.H[1].num) = 0
    /\ SumSeq(gorModel.E[3].num) = 0

\* position i (0-based) lies in a region of the list
InAny(regions, i) ==
    \E k \in 1..Len(regions) : regions[k].Start <= i /\ i < regions[k].End

\* C21: PredictSequenceFromRegions returns one label per position: H when
\* the position lies in a helix region, otherwise E when it lies in a strand
\* region, otherwise C (helix overrides strand where the two overlap).
C21_HelixPaintedLast ==
    (program = "chou_fasman_test" /\ op = "PredictSequenceFromRegions") =>
        /\ Len(result) = Len(SEQUENCE)
        /\ \A i \in 0..(Len(SEQUENCE) - 1) :
               result[i + 1] = IF InAny(tcRegions1, i) THEN "H"
                               ELSE IF InAny(tcRegions2, i) THEN "E"
                               ELSE "C"

\* a helix and a strand region overlap on one position and each has a
\* position of its own
C21_Witness ==
    /\ program = "chou_fasman_test"
    /\ op = "PredictSequenceFromRegions"
    /\ tcRegions1 = <<Region(0, 2)>>
    /\ tcRegions2 = <<Region(1, 3)>>
    /\ result = <<"H", "H", "E">>

\* position i is covered by no helix and no strand region of the test case
Uncovered(i) == ~InAny(tcRegions1, i) /\ ~InAny(tcRegions2, i)

\* C22: FindCoilRegions returns, in ascending order, exactly the maximal
\* runs of positions of 0..L-1 that no helix and no strand region covers, as
\* half-open regions no two of which abut; a position lies in a returned
\* region exactly when PredictSequenceFromRegions labels it C; nothing is
\* returned for L = 0.
C22_CoilIsMaximalUncovered ==
    (program = "chou_fasman_test" /\ op = "FindCoilRegions") =>
        LET L == Len(SEQUENCE)
        IN  /\ \A k \in 1..Len(result) :
                   /\ 0 <= result[k].Start
                   /\ result[k].Start < result[k].End
                   /\ result[k].End <= L
                   /\ \A i \in result[k].Start..(result[k].End - 1) : Uncovered(i)
                   /\ result[k].Start = 0 \/ ~Uncovered(result[k].Start - 1)
                   /\ result[k].End = L \/ ~Uncovered(result[k].End)
            /\ \A k \in 1..(Len(result) - 1) :
                   result[k].End < result[k + 1].Start
            /\ \A i \in 0..(L - 1) :
                   /\ Uncovered(i) => InAny(result, i)
                   /\ InAny(result, i)
                          <=> PredictSequenceFromRegions(tcRegions1,
                                                         tcRegions2)[i + 1] = "C"
            /\ L = 0 => result = <<>>

\* a helix region in the middle leaves one coil region on each side
C22_Witness ==
    /\ program = "chou_fasman_test"
    /\ op = "FindCoilRegions"
    /\ Len(SEQUENCE) = 3
    /\ tcRegions1 = <<Region(1, 2)>>
    /\ tcRegions2 = <<>>
    /\ result = <<Region(0, 1), Region(2, 3)>>

\* the window of the test case that starts at position i (0-based)
WindowAt(i) == Region(i, i + tcArgs.windowSize)

\* the window at i satisfies IsNucleationRegion with the test's arguments
Qualifies(i) ==
    IsNucleationRegion(WindowAt(i), tcConf1, tcArgs.windowThreshold,
                       tcArgs.minParam)

\* C23: FindNucleationRegion returns, by ascending start, exactly the
\* windows [i, i + windowSize) with 0 <= i <= L - windowSize that satisfy
\* IsNucleationRegion, each with its own bounds (overlapping windows are
\* not merged), and nothing when L < windowSize.
C23_EveryQualifyingWindow ==
    (program = "chou_fasman_test" /\ op = "FindNucleationRegion") =>
        LET L == Len(SEQUENCE)
        IN  /\ \A k \in 1..Len(result) :
                   /\ result[k].Start \in 0..(L - tcArgs.windowSize)
                   /\ result[k] = WindowAt(result[k].Start)
                   /\ Qualifies(result[k].Start)
            /\ \A k \in 1..(Len(result) - 1) :
                   result[k].Start < result[k + 1].Start
            /\ \A i \in 0..(L - tcArgs.windowSize) :
                   Qualifies(i) => Contains(result, WindowAt(i))
            /\ L < tcArgs.windowSize => result = <<>>

\* two overlapping windows qualify and both are returned, the second one
\* ending at the last residue
C23_Witness ==
    /\ program = "chou_fasman_test"
    /\ op = "FindNucleationRegion"
    /\ Len(SEQUENCE) = 4
    /\ tcArgs.windowSize = 2
    /\ tcArgs.windowThreshold = 2
    /\ result = <<Region(1, 3), Region(2, 4)>>

\* the helix propensity of a residue is at least its strand propensity
\* (a residue in no table has the same default for both)
HelixAtLeastStrand(residue) ==
    residue \in DOMAIN propensities
        => propensities[residue].Pa >= propensities[residue].Pb

\* C24: before cleanup, the signal-refined predictor labels a position
\* marked for helix and for strand by its own two propensities (H when
\* helix >= strand, E otherwise), a position marked in one array only by
\* the class of that array, and an unmarked position C.
C24_PerResidueResolution ==
    (program = "improved_chou_fasman" /\ icfPc \in {"resolved", "done"}) =>
        /\ Len(final) = Len(icfSeq)
        /\ \A i \in 1..Len(icfSeq) :
               /\ (rawH[i] /\ rawE[i] /\ HelixAtLeastStrand(icfSeq[i]))
                      => final[i] = "H"
               /\ (rawH[i] /\ rawE[i] /\ ~HelixAtLeastStrand(icfSeq[i]))
                      => final[i] = "E"
               /\ (rawH[i] /\ ~rawE[i]) => final[i] = "H"
               /\ (~rawH[i] /\ rawE[i]) => final[i] = "E"
               /\ (~rawH[i] /\ ~rawE[i]) => final[i] = "C"

\* one sequence has a doubly marked position resolved to H, another
\* resolved to E, a position marked for helix only and an unmarked one
C24_Witness ==
    /\ program = "improved_chou_fasman"
    /\ icfPc = "resolved"
    /\ \E i \in 1..Len(final) : rawH[i] /\ rawE[i] /\ final[i] = "H"
    /\ \E i \in 1..Len(final) : rawH[i] /\ rawE[i] /\ final[i] = "E"
    /\ \E i \in 1..Len(final) : rawH[i] /\ ~rawE[i] /\ final[i] = "H"
    /\ \E i \in 1..Len(final) : ~rawH[i] /\ ~rawE[i] /\ final[i] = "C"

\* position i (1-based) of s lies in a maximal run of `label` that is
\* shorter than minLen
InShortRun(s, i, label, minLen) ==
    /\ s[i] = label
    /\ \E lo \in 1..i : \E hi \in i..Len(s) :
           /\ \A k \in lo..hi : s[k] = label
           /\ lo = 1 \/ s[lo - 1] # label
           /\ hi = Len(s) \/ s[hi + 1] # label
           /\ hi - lo + 1 < minLen

\* s has no maximal run of H shorter than 3 and none of E shorter than 2
NoShortRun(s) ==
    \A i \in 1..Len(s) :
        ~InShortRun(s, i, "H", 3) /\ ~InShortRun(s, i, "E", 2)

\* C25: cleanUpStructure returns a string of the length of its input in
\* which exactly the characters of the maximal H runs shorter than 3 and of
\* the maximal E runs shorter than 2 of the input have become C; the string
\* returned, and so the one the signal-refined predictor returns, has no
\* such short run.
C25_NoShortRuns ==
    /\ (program = "improved_chou_fasman_test" /\ op = "cleanUpStructure") =>
           /\ Len(result) = Len(tcInput)
           /\ \A i \in 1..Len(tcInput) :
                  result[i] = IF \/ InShortRun(tcInput, i, "H", 3)
                                 \/ InShortRun(tcInput, i, "E", 2)
                              THEN "C" ELSE tcInput[i]
           /\ NoShortRun(result)
    /\ (program = "improved_chou_fasman" /\ icfPc = "done") =>
           /\ Len(icfOut) = Len(final)
           /\ \A i \in 1..Len(final) :
                  icfOut[i] = IF \/ InShortRun(final, i, "H", 3)
                                 \/ InShortRun(final, i, "E", 2)
                              THEN "C" ELSE final[i]
           /\ NoShortRun(icfOut)

\* a short and a long run of each class: only the short ones become coil
C25_Witness ==
    /\ program = "improved_chou_fasman_test"
    /\ op = "cleanUpStructure"
    /\ tcInput = <<"H", "H", "E", "H", "H", "H", "E">>
    /\ result = <<"C", "C", "C", "H", "H", "H", "C">>

\* the predictor resolved a helix run of fewer than 3 positions and cleanup
\* made it coil
C25_WitnessPredictor ==
    /\ program = "improved_chou_fasman"
    /\ icfPc = "done"
    /\ \E i \in 1..Len(final) : InShortRun(final, i, "H", 3) /\ icfOut[i] = "C"

\* C26: a region operation leaves the list passed to it as it was: after
\* MergeOverlappingRegions returns, the caller's list (tcRegions1) holds the
\* regions it held before the call (tcInput), in the same order.
C26_InputListUnchanged ==
    (program = "chou_fasman_test" /\ op = "MergeOverlappingRegions")
        => tcRegions1 = tcInput

\* a run of TrainGOR that returned an error or did not return
TrainFailed(r) == r.panic \/ r.err # "nil"

\* C27: TrainGOR on the ids in another order fails exactly when it fails
\* on the original order, and when both succeed the two models have the
\* same window size and the same normalized H, E and C matrices.
C27_OrderIndependent ==
    (program = "gor_test" /\ op = "TrainGOR, TrainGOR") =>
        /\ TrainFailed(result[1]) <=> TrainFailed(result[2])
        /\ ~TrainFailed(result[1]) =>
               /\ result[1].model.WindowSize = result[2].model.WindowSize
               /\ result[1].model.H = result[2].model.H
               /\ result[1].model.E = result[2].model.E
               /\ result[1].model.C = result[2].model.C

\* two different examples, neither skipped, trained in both orders into a
\* model with helix and strand weight
C27_Witness ==
    /\ program = "gor_test"
    /\ op = "TrainGOR, TrainGOR"
    /\ Len(tcInput) = 2
    /\ tcInput[1] # tcInput[2]
    /\ tcRegions1 = <<tcInput[2], tcInput[1]>>
    /\ \A k \in 1..2 : tcInput[k].pssmOk /\ ~SkipsExample(tcInput[k].pssm)
    /\ Len(tcInput[1].pssm) = 2
    /\ tcArgs.WindowSize = 3
    /\ ~TrainFailed(result[1])
    /\ HasWeight(result[1].model.H)
    /\ HasWeight(result[1].model.E)

\* C28: extendBounds(seed, n, scores, threshold) returns (left, right) with
\* left <= seed <= right, left >= min(seed, 3) and right <= max(seed, n - 4);
\* positions 0 and n - 1 are never nucleation sites; so the first and the
\* last residue are in no helix or strand segment and are predicted C.
C28_EndsAreCoil ==
    /\ (program = "improved_chou_fasman_test" /\ op = "extendBounds") =>
           /\ result[1] <= tcArgs.seed
           /\ tcArgs.seed <= result[2]
           /\ result[1] >= Min2(tcArgs.seed, 3)
           /\ result[2] <= Max2(tcArgs.seed, tcArgs.n - 4)
    /\ (program = "improved_chou_fasman" /\ Len(icfSeq) >= 1) =>
           LET n == Len(icfSeq)
           IN  /\ icfPc \in {"nucleated", "extended", "resolved", "done"}
                      => ~nucleationSites[1] /\ ~nucleationSites[n]
               /\ icfPc \in {"extended", "resolved", "done"}
                      => ~rawH[1] /\ ~rawE[1] /\ ~rawH[n] /\ ~rawE[n]
               /\ icfPc \in {"resolved", "done"}
                      => final[1] = "C" /\ final[n] = "C"
               /\ icfPc = "done" => icfOut[1] = "C" /\ icfOut[n] = "C"
               /\ icfPc # "panic"

\* a seed in the middle extends to both limits: left to 3, right to n - 4
C28_Witness ==
    /\ program = "improved_chou_fasman_test"
    /\ op = "extendBounds"
    /\ tcArgs.n = 7
    /\ tcArgs.seed = 4
    /\ result = <<3, 4>>

\* a seed near the start extends right up to n - 4
C28_WitnessRight ==
    /\ program = "improved_chou_fasman_test"
    /\ op = "extendBounds"
    /\ tcArgs.n = 7
    /\ tcArgs.seed = 1
    /\ result = <<1, 3>>

\* the predictor marked the second and the last but one residue
C28_WitnessPredictor ==
    /\ program = "improved_chou_fasman"
    /\ icfPc = "done"
    /\ Len(icfSeq) >= 4
    /\ rawH[2]
    /\ rawH[Len(icfSeq) - 1]

\* the strand region b loses to the merged helix region a it overlaps
\* (helix wins a tie)
StrandLosesTo(b, a) ==
    /\ AreOverlapping(b, "beta", a, "alpha")
    /\ RatGE(AverageParam(a, "alpha"), AverageParam(b, "beta"))

\* the helix region a loses to the merged strand region b it overlaps
HelixLosesTo(a, b) ==
    /\ AreOverlapping(a, "alpha", b, "beta")
    /\ RatGT(AverageParam(b, "beta"), AverageParam(a, "alpha"))

\* C29: in the classical pipeline a strand region that loses to an
\* overlapping region of the merged helix set is dropped, whether or not
\* that helix region survives, and symmetrically for a helix region; the
\* positions of dropped regions that no surviving region covers are coil.
C29_ResolvedAgainstMergedSets ==
    (program = "chou_fasman" /\ pc \in {"solved", "coiled", "done"}) =>
        /\ \A kb \in 1..Len(betaRegions) :
               (\E ka \in 1..Len(alphaRegions) :
                    StrandLosesTo(betaRegions[kb], alphaRegions[ka]))
                   => ~Contains(betaFinal, betaRegions[kb])
        /\ \A ka \in 1..Len(alphaRegions) :
               (\E kb \in 1..Len(betaRegions) :
                    HelixLosesTo(alphaRegions[ka], betaRegions[kb]))
                   => ~Contains(alphaFinal, alphaRegions[ka])
        /\ \A i \in (Covered(alphaRegions) \cup Covered(betaRegions))
                        \ (Covered(alphaFinal) \cup Covered(betaFinal)) :
               /\ pc \in {"coiled", "done"} => InAny(coilFinal, i)
               /\ pc = "done" => predictedSequence[i + 1] = "C"

\* a strand region lost to a helix region that itself lost to another
\* strand region: both are dropped, and the residues only they covered are
\* coil
C29_Witness ==
    /\ program = "chou_fasman"
    /\ pc = "done"
    /\ \E kb \in 1..Len(betaRegions) : \E ka \in 1..Len(alphaRegions) :
       \E kb2 \in 1..Len(betaRegions) :
           /\ StrandLosesTo(betaRegions[kb], alphaRegions[ka])
           /\ HelixLosesTo(alphaRegions[ka], betaRegions[kb2])
           /\ ~Contains(alphaFinal, alphaRegions[ka])
           /\ ~Contains(betaFinal, betaRegions[kb])
           /\ Contains(betaFinal, betaRegions[kb2])
           /\ \A i \in betaRegions[kb].Start..(betaRegions[kb].End - 1) :
                  predictedSequence[i + 1] = "C"

\* every relative row index j - i + half, for a position i of a profile of
\* len rows and a j of its clipped window, is a row of a W-row matrix
RowIndexInRange(W, len) ==
    LET half == (W - 1) \div 2
    IN  \A i \in 0..(len - 1) :
            \A j \in Max2(0, i - half)..Min2(len - 1, i + half) :
                j - i + half \in 0..(W - 1)

\* the last row of each matrix of a model of even window size is all-zero
LastRowZero(model) ==
    model.WindowSize % 2 = 0 =>
        \A class \in {"H", "E", "C"} :
            SumSeq(model[class][model.WindowSize].num) = 0

\* C30: for every window size W >= 1, odd or even, TrainGOR and PredictGOR
\* use only relative row indices j - i + half in 0..W-1 (half = (W-1)/2),
\* so neither indexes a matrix row outside the model; for even W the last
\* row is never written and is all-zero in the trained model.
C30_RowIndexInRange ==
    program = "gor" =>
        /\ gorPc \notin {"train_panic", "panic"}
        /\ (gorModel # nilModel) =>
               /\ gorModel.WindowSize >= 1
               /\ (gorExample # noExample /\ gorExample.pssmOk) =>
                      RowIndexInRange(gorModel.WindowSize, Len(gorExample.pssm))
               /\ LastRowZero(gorModel)
        /\ gorPc = "predicted" =>
               /\ RowIndexInRange(gorLoaded.WindowSize, Len(gorProfile))
               /\ LastRowZero(gorLoaded)

\* a model of window 2 was trained on an example of two positions, saved,
\* loaded and run on a profile of two positions
C30_Witness ==
    /\ program = "gor"
    /\ gorPc = "predicted"
    /\ gorLoaded.WindowSize = 2
    /\ HasWeight(gorLoaded.H)
    /\ SumSeq(gorLoaded.H[2].num) = 0
    /\ Len(gorProfile) = 2
    /\ Len(gorOut) = 2

====
